---- MODULE Spec2Model ----
(***************************************************************************)
(* A model of the n0tvercel build-dispatch and log-delivery pipeline:      *)
(*   - the Deployment Orchestrator (POST /deploy of the API server),        *)
(*   - the Log Ingestion Consumer (the kafkajs eachBatch callback),         *)
(*   - the Build Executor's log lines and the dashboard's log polling.      *)
(* Each component has its own next-state relation and specification; the   *)
(* variables of the other components stay as Init leaves them.             *)
(***************************************************************************)
EXTENDS Integers, Sequences, FiniteSets, TLC

\* ------------------------------------------------------------------ bounds

\* Number of dispatch requests the model follows.
MaxRequests == 2

\* Number of files a build can leave in output/dist.
MaxFiles == 3

\* Number of files of the builds whose logs the dashboard is followed on.
MaxWatchedFiles == 2

\* Number of observer sockets, of 'subscribe' events they send in all, and of
\* publishes on the relay.
MaxObservers == 2
MaxJoins == 2
MaxPublished == 2

\* Number of termination signals the server process receives.
MaxSignals == 1

\* Number of log lines of a run that may be lost on the way to log_events.
MaxLost == 1

\* ------------------------------------------------------------------- state

\* The orchestrator's state.
VARIABLES
    projects,     \* ids of the Project rows of the metadata store
    deployments,  \* Deployment rows: a sequence of [id, projectId, status]
    dpc,          \* per request: where the /deploy handler stands
    dbody,        \* per request: the request body
    ddep,         \* per request: id of the Deployment row it created (0: none)
    response,     \* per request: the HTTP response sent (NoResponse: none yet)
    trace         \* per request: its side effects, in the order they happen

dispatchVars == <<projects, deployments, dpc, dbody, ddep, response, trace>>

\* The ingestion consumer's state.
VARIABLES
    topic,        \* the partition: a sequence of record values (1-based offsets)
    resolved,     \* kafkajs's resolved position: offsets <= resolved are done
    committed,    \* the position committed to the broker for the group
    ipc,          \* where the eachBatch callback stands
    batch,        \* the batch in hand: [from, to] offsets (from > to: none)
    logEntries,   \* the callback's logEntries array
    acked,        \* offsets the callback passed to resolveOffset, in call order
    written,      \* what the callback's bulk insert wrote (<<>>: nothing)
    outcome,      \* how the callback ended
    heartbeats,   \* heartbeat() calls that succeeded in this callback
    sink,         \* the log_events table: a sequence of LogEntry rows
    nextEventId,  \* the next fresh uuid
    clock         \* the wall clock, in ticks

ingestVars == <<topic, resolved, committed, ipc, batch, logEntries, acked, written,
                outcome, heartbeats, sink, nextEventId, clock>>

\* The build executor's state, the log rows of its deployment, the dashboard.
VARIABLES
    epc,          \* where the executor's init() stands
    emitted,      \* the texts passed to publishLog, in call order
    nfiles,       \* filesToUpload.length
    nextIndex,    \* the uploader's shared claim counter
    completed,    \* uploads that succeeded
    failed,       \* uploads that failed
    wpc,          \* per worker: where its loop stands
    widx,         \* per worker: its currentIndex
    werr,         \* per worker: the error its uploadOne threw
    delivered,    \* how many of the emitted lines the log path has handled
    lost,         \* which of them (by their place in emitted) it has lost
    isDeploying,  \* dashboard state
    ostatus,      \* dashboard state: status
    polledEnd     \* the dashboard has polled since the last line was handled

uploadVars == <<nfiles, nextIndex, completed, failed, wpc, widx, werr>>

execVars == <<epc, emitted, uploadVars>>

observeVars == <<delivered, lost, isDeploying, ostatus, polledEnd>>

\* The live fan-out: the socket server's rooms and the relay's channels.
VARIABLES
    joined,       \* per observer socket: the rooms it has joined
    inbox,        \* per observer socket: the 'message' events it was sent
    published     \* the publishes made on the relay, in order

fanoutVars == <<joined, inbox, published>>

\* The API server process: its boot and its shutdown.
VARIABLES
    spc,          \* where startServer stands
    shut,         \* per signal received: where its gracefulShutdown stands
    slog,         \* the calls made on the long-lived clients and the process
    exitCode      \* the code the process exited with (NoExit: it runs)

serverVars == <<spc, shut, slog, exitCode>>

\* The log query interface.
VARIABLES
    answer        \* the last response of GET /logs/:id (NoAnswer: none yet)

queryVars == <<answer>>

\* The artifact store and the executors that write to it.
VARIABLES
    store,        \* the objects of the bucket: a set of [key, deployment, file]
    sent          \* per executor and file: how its PutObject ended ("none": not sent)

storeVars == <<store, sent>>

\* What each component leaves alone.
notDispatch ==
    <<ingestVars, execVars, observeVars, fanoutVars, serverVars, queryVars, storeVars>>
notIngest ==
    <<dispatchVars, execVars, observeVars, fanoutVars, serverVars, queryVars, storeVars>>
notExec ==
    <<dispatchVars, ingestVars, observeVars, fanoutVars, serverVars, queryVars, storeVars>>
notObserve ==
    <<dispatchVars, ingestVars, uploadVars, fanoutVars, serverVars, queryVars, storeVars>>
notFanout ==
    <<dispatchVars, ingestVars, execVars, observeVars, serverVars, queryVars, storeVars>>
notServer ==
    <<dispatchVars, ingestVars, execVars, observeVars, fanoutVars, queryVars, storeVars>>
notQuery ==
    <<dispatchVars, ingestVars, execVars, observeVars, fanoutVars, serverVars, storeVars>>
notStore ==
    <<dispatchVars, ingestVars, execVars, observeVars, fanoutVars, serverVars, queryVars>>

\* ------------------------------------------------------------- orchestrator

Requests == 1..MaxRequests

\* Identifiers in the uuid format; the store hands them out to projects.
ProjectIds == {"P1", "P2"}

\* Request bodies: {projectId: <uuid>}, {projectId: <not a uuid>}, {} .
Bodies ==
    {[projectId |-> s] : s \in ProjectIds \cup {"not-a-uuid"}} \cup {[name |-> "x"]}

NoResponse == [code |-> 0]
NoBody == [none |-> TRUE]

\* z.string().uuid(): the format check of the schema.
IsUuid(s) == s \in ProjectIds

\* deploySchema.safeParse(req.body)
SafeParse(body) ==
    IF "projectId" \in DOMAIN body /\ IsUuid(body.projectId)
    THEN [ok |-> TRUE, projectId |-> body.projectId]
    ELSE [ok |-> FALSE, projectId |-> ""]

\* prisma.project.findUnique({ where: { id } }): the id, or "" for null.
FindUnique(id) == IF id \in projects THEN id ELSE ""

ValidationFailed == [code |-> 400, error |-> "Validation failed"]
NotFound == [code |-> 404, error |-> "Project not found"]
Queued(depId) == [code |-> 202, status |-> "queued", deploymentId |-> depId]

\* errorHandler: what a thrown store error is answered with, by its name.
ErrorResponse(name) ==
    IF name = "PrismaClientKnownRequestError"
    THEN [code |-> 400, error |-> "Database error"]
    ELSE IF name = "PrismaClientUnknownRequestError"
    THEN [code |-> 500, error |-> "Database error"]
    ELSE [code |-> 500, error |-> "Internal server error"]

StoreErrors == {"PrismaClientKnownRequestError", "PrismaClientUnknownRequestError",
                "Error"}

\* project.gitURL of a Project row.
GitURL(projectId) == "https://github.com/x/" \o projectId

\* containerOverrides[0].environment of the RunTaskCommand, as the process
\* environment of the launched container.
TaskEnvironment(gitURL, projectId, deploymentId) ==
    [GIT_REPOSITORY__URL |-> gitURL,
     PROJECT_ID |-> projectId,
     DEPLOYEMENT_ID |-> deploymentId]

DispatchInit ==
    /\ projects = {"P1"}
    /\ deployments = <<>>
    /\ dpc = [r \in Requests |-> "idle"]
    /\ dbody = [r \in Requests |-> NoBody]
    /\ ddep = [r \in Requests |-> 0]
    /\ response = [r \in Requests |-> NoResponse]
    /\ trace = [r \in Requests |-> <<>>]

\* POST /project: a Project row is created.
CreateProject(p) ==
    /\ p \notin projects
    /\ projects' = projects \cup {p}
    /\ UNCHANGED <<deployments, dpc, dbody, ddep, response, trace>>
    /\ UNCHANGED notDispatch

\* POST /deploy arrives: the body is validated; an invalid one is answered 400.
Receive(r, body) ==
    /\ dpc[r] = "idle"
    /\ dbody' = [dbody EXCEPT ![r] = body]
    /\ IF SafeParse(body).ok
       THEN /\ dpc' = [dpc EXCEPT ![r] = "find"]
            /\ UNCHANGED response
       ELSE /\ dpc' = [dpc EXCEPT ![r] = "done"]
            /\ response' = [response EXCEPT ![r] = ValidationFailed]
    /\ UNCHANGED <<projects, deployments, ddep, trace>>
    /\ UNCHANGED notDispatch

\* A buggy variant: the lookup's result is not checked for null.
FindProjectNoCheck(r) ==
    /\ dpc[r] = "find"
    /\ dpc' = [dpc EXCEPT ![r] = "create"]
    /\ UNCHANGED <<projects, deployments, dbody, ddep, response, trace>>
    /\ UNCHANGED notDispatch

\* await prisma.project.findUnique: no project is answered 404.
FindProject(r) ==
    /\ dpc[r] = "find"
    /\ IF FindUnique(SafeParse(dbody[r]).projectId) = ""
       THEN /\ dpc' = [dpc EXCEPT ![r] = "done"]
            /\ response' = [response EXCEPT ![r] = NotFound]
       ELSE /\ dpc' = [dpc EXCEPT ![r] = "create"]
            /\ UNCHANGED response
    /\ UNCHANGED <<projects, deployments, dbody, ddep, trace>>
    /\ UNCHANGED notDispatch

\* A buggy variant: a project that has a Deployment row already gets no second
\* one; the request is given the row that is there.
CreateDeploymentMerges(r) ==
    /\ dpc[r] = "create"
    /\ LET same == {i \in DOMAIN deployments :
                       deployments[i].projectId = SafeParse(dbody[r]).projectId}
           id == Len(deployments) + 1
       IN IF same # {}
          THEN /\ ddep' = [ddep EXCEPT ![r] = deployments[CHOOSE i \in same : TRUE].id]
               /\ UNCHANGED deployments
          ELSE /\ deployments' = Append(deployments,
                      [id |-> id, projectId |-> SafeParse(dbody[r]).projectId,
                       status |-> "QUEUED"])
               /\ ddep' = [ddep EXCEPT ![r] = id]
    /\ trace' = [trace EXCEPT ![r] = Append(@, "created")]
    /\ dpc' = [dpc EXCEPT ![r] = "created"]
    /\ UNCHANGED <<projects, dbody, response>>
    /\ UNCHANGED notDispatch

\* await prisma.deployment.create succeeds: the row exists, status QUEUED.
CreateDeployment(r) ==
    /\ dpc[r] = "create"
    /\ LET id == Len(deployments) + 1 IN
       /\ deployments' = Append(deployments,
              [id |-> id, projectId |-> SafeParse(dbody[r]).projectId,
               status |-> "QUEUED"])
       /\ ddep' = [ddep EXCEPT ![r] = id]
    /\ trace' = [trace EXCEPT ![r] = Append(@, "created")]
    /\ dpc' = [dpc EXCEPT ![r] = "created"]
    /\ UNCHANGED <<projects, dbody, response>>
    /\ UNCHANGED notDispatch

\* A buggy variant: the store error is swallowed and the handler goes on.
CreateFailsButContinues(r) ==
    /\ dpc[r] = "create"
    /\ trace' = [trace EXCEPT ![r] = Append(@, "createFailed")]
    /\ dpc' = [dpc EXCEPT ![r] = "created"]
    /\ UNCHANGED <<projects, deployments, dbody, ddep, response>>
    /\ UNCHANGED notDispatch

\* await prisma.deployment.create throws: asyncHandler hands the error to
\* errorHandler, which answers; the rest of the handler does not run.
CreateFails(r) ==
    /\ dpc[r] = "create"
    /\ \E e \in StoreErrors :
          response' = [response EXCEPT ![r] = ErrorResponse(e)]
    /\ trace' = [trace EXCEPT ![r] = Append(@, "createFailed")]
    /\ dpc' = [dpc EXCEPT ![r] = "done"]
    /\ UNCHANGED <<projects, deployments, dbody, ddep>>
    /\ UNCHANGED notDispatch

\* A buggy variant: the launch call is issued, and the caller answered after.
LaunchThenRespond(r) ==
    /\ dpc[r] = "created"
    /\ response' = [response EXCEPT ![r] = Queued(ddep[r])]
    /\ trace' = [trace EXCEPT ![r] = @ \o <<"launch", "responded">>]
    /\ dpc' = [dpc EXCEPT ![r] = "launching"]
    /\ UNCHANGED <<projects, deployments, dbody, ddep>>
    /\ UNCHANGED notDispatch

\* The synchronous rest of the handler: the 202 response is sent, then
\* runDeploymentTask issues ecsClient.send(RunTaskCommand).
RespondAndLaunch(r) ==
    /\ dpc[r] = "created"
    /\ response' = [response EXCEPT ![r] = Queued(ddep[r])]
    /\ trace' = [trace EXCEPT ![r] = @ \o <<"responded", "launch">>]
    /\ dpc' = [dpc EXCEPT ![r] = "launching"]
    /\ UNCHANGED <<projects, deployments, dbody, ddep>>
    /\ UNCHANGED notDispatch

\* ecsClient.send resolves: both layers log success; nothing else changes.
LaunchAccepted(r) ==
    /\ dpc[r] = "launching"
    /\ trace' = [trace EXCEPT ![r] = @ \o
          <<"launchAccepted", "log:ECS task started successfully",
            "log:Deployment task completed successfully">>]
    /\ dpc' = [dpc EXCEPT ![r] = "done"]
    /\ UNCHANGED <<projects, deployments, dbody, ddep, response>>
    /\ UNCHANGED notDispatch

\* Buggy variants of the failure path: the row is rolled back; the launch is
\* issued again.
LaunchFailedRollback(r) ==
    /\ dpc[r] = "launching"
    /\ deployments' = SelectSeq(deployments, LAMBDA d : d.id # ddep[r])
    /\ trace' = [trace EXCEPT ![r] = @ \o <<"launchFailed", "log:RunTask failed">>]
    /\ dpc' = [dpc EXCEPT ![r] = "done"]
    /\ UNCHANGED <<projects, dbody, ddep, response>>
    /\ UNCHANGED notDispatch

LaunchFailedRelaunch(r) ==
    /\ dpc[r] = "launching"
    /\ trace' = [trace EXCEPT ![r] = @ \o
          <<"launchFailed", "log:RunTask failed", "launch">>]
    /\ dpc' = [dpc EXCEPT ![r] = "done"]
    /\ UNCHANGED <<projects, deployments, dbody, ddep, response>>
    /\ UNCHANGED notDispatch

\* ecsClient.send rejects: runDeploymentTask logs and rethrows, the handler's
\* catch logs; the row, the response and the launch are left as they are.
LaunchFailed(r) ==
    /\ dpc[r] = "launching"
    /\ trace' = [trace EXCEPT ![r] = @ \o
          <<"launchFailed", "log:RunTask failed", "log:Deployment task failed">>]
    /\ dpc' = [dpc EXCEPT ![r] = "done"]
    /\ UNCHANGED <<projects, deployments, dbody, ddep, response>>
    /\ UNCHANGED notDispatch

DispatchNext ==
    \/ \E p \in ProjectIds : CreateProject(p)
    \/ \E r \in Requests, body \in Bodies : Receive(r, body)
    \/ \E r \in Requests : FindProject(r)
    \/ \E r \in Requests : CreateDeployment(r)
    \/ \E r \in Requests : CreateFails(r)
    \/ \E r \in Requests : RespondAndLaunch(r)
    \/ \E r \in Requests : LaunchAccepted(r)
    \/ \E r \in Requests : LaunchFailed(r)


\* -------------------------------------------------------- ingestion consumer

\* Number of records the model puts on the container-logs partition.
MaxTopic == 3

\* Number of times the model lets the runner invoke the eachBatch callback.
MaxBatches == 3


\* message.value of a record with no payload.
NullValue == "<null>"

\* message.value of a record produced with zero bytes: a Buffer of length 0,
\* which is an object and so truthy; its toString() is "".
EmptyValue == ""

\* The payloads the model puts on the topic, as the bytes of message.value.
Payloads ==
    { NullValue,
      EmptyValue,
      "{DEPLOYEMENT_ID:D1,log:a}",
      "{DEPLOYEMENT_ID:D1,log:c}",
      "{DEPLOYEMENT_ID:D2,log:c}",
      "{log:b}",
      "{DEPLOYEMENT_ID:D1}",
      "{DEPLOYEMENT_ID:D1,log:}",
      "{PROJECT_ID:P1,DEPLOYMENT_ID:D1,log:a}",
      "{PROJECT_ID:P1,log:a}",
      "not json" }

\* JSON.parse(message.value.toString()): the parsed object, or a SyntaxError.
JsonParse(raw) ==
    CASE raw = "{DEPLOYEMENT_ID:D1,log:a}" ->
            [ok |-> TRUE, obj |-> [DEPLOYEMENT_ID |-> "D1", log |-> "a"]]
      [] raw = "{DEPLOYEMENT_ID:D1,log:c}" ->
            [ok |-> TRUE, obj |-> [DEPLOYEMENT_ID |-> "D1", log |-> "c"]]
      [] raw = "{DEPLOYEMENT_ID:D2,log:c}" ->
            [ok |-> TRUE, obj |-> [DEPLOYEMENT_ID |-> "D2", log |-> "c"]]
      [] raw = "{log:b}" ->
            [ok |-> TRUE, obj |-> [log |-> "b"]]
      [] raw = "{DEPLOYEMENT_ID:D1}" ->
            [ok |-> TRUE, obj |-> [DEPLOYEMENT_ID |-> "D1"]]
      [] raw = "{DEPLOYEMENT_ID:D1,log:}" ->
            [ok |-> TRUE, obj |-> [DEPLOYEMENT_ID |-> "D1", log |-> ""]]
      [] raw = "{PROJECT_ID:P1,DEPLOYMENT_ID:D1,log:a}" ->
            [ok |-> TRUE,
             obj |-> [PROJECT_ID |-> "P1", DEPLOYMENT_ID |-> "D1", log |-> "a"]]
      [] raw = "{PROJECT_ID:P1,log:a}" ->
            [ok |-> TRUE, obj |-> [PROJECT_ID |-> "P1", log |-> "a"]]
      [] OTHER -> [ok |-> FALSE, obj |-> [error |-> "SyntaxError"]]

\* obj.key as JavaScript reads it: "" stands for undefined and for "".
Field(obj, key) == IF key \in DOMAIN obj THEN obj[key] ELSE ""

\* !parsedMessage.DEPLOYEMENT_ID || !parsedMessage.log
MissingRequired(obj) == Field(obj, "DEPLOYEMENT_ID") = "" \/ Field(obj, "log") = ""

\* messages.filter(msg => msg.value): the offsets of the batch with a payload.
ValidOffsets(from, to) == {i \in from..to : topic[i] # NullValue}

\* A buggy variant of the loop body: the event id is not drawn afresh for each
\* entry.
LoopBodyStaleId(acc, i) ==
    LET p == JsonParse(topic[i]) IN
    IF ~p.ok \/ MissingRequired(p.obj)
    THEN [acc EXCEPT !.acks = Append(@, i)]
    ELSE [entries |-> Append(acc.entries,
              [event_id |-> acc.id,
               deployment_id |-> p.obj.DEPLOYEMENT_ID,
               log |-> p.obj.log,
               timestamp |-> clock,
               offset |-> i]),
          acks |-> Append(acc.acks, i),
          id |-> acc.id]

\* A buggy variant of the loop body: no check of the required fields, so every
\* parseable payload becomes a log entry.
LoopBodyNoValidation(acc, i) ==
    LET p == JsonParse(topic[i]) IN
    IF ~p.ok
    THEN [acc EXCEPT !.acks = Append(@, i)]
    ELSE [entries |-> Append(acc.entries,
              [event_id |-> acc.id,
               deployment_id |-> Field(p.obj, "DEPLOYEMENT_ID"),
               log |-> Field(p.obj, "log"),
               timestamp |-> clock,
               offset |-> i]),
          acks |-> Append(acc.acks, i),
          id |-> acc.id + 1]

\* A buggy variant of the loop body: a well-formed entry is put at the front
\* of logEntries (unshift for push).
LoopBodyUnshift(acc, i) ==
    LET p == JsonParse(topic[i]) IN
    IF ~p.ok
    THEN [acc EXCEPT !.acks = Append(@, i)]
    ELSE IF MissingRequired(p.obj)
    THEN [acc EXCEPT !.acks = Append(@, i)]
    ELSE [entries |-> <<[event_id |-> acc.id,
                         deployment_id |-> p.obj.DEPLOYEMENT_ID,
                         log |-> p.obj.log,
                         timestamp |-> clock,
                         offset |-> i]>> \o acc.entries,
          acks |-> Append(acc.acks, i),
          id |-> acc.id + 1]

\* What the for loop does with the message at offset i, given what it has built
\* so far: acc = [entries, acks, id].
LoopBody(acc, i) ==
    LET p == JsonParse(topic[i]) IN
    IF ~p.ok
    THEN \* catch (parseError): resolveOffset(message.offset)
         [acc EXCEPT !.acks = Append(@, i)]
    ELSE IF MissingRequired(p.obj)
    THEN \* invalid format: resolveOffset(message.offset); continue
         [acc EXCEPT !.acks = Append(@, i)]
    ELSE \* logEntries.push({...}); resolveOffset(message.offset)
         [entries |-> Append(acc.entries,
              [event_id |-> acc.id,
               deployment_id |-> p.obj.DEPLOYEMENT_ID,
               log |-> p.obj.log,
               timestamp |-> clock,
               offset |-> i]),
          acks |-> Append(acc.acks, i),
          id |-> acc.id + 1]

\* for (const message of validMessages) { ... } over the offsets from..to.
RECURSIVE Loop(_, _, _)
Loop(acc, i, to) ==
    IF i > to THEN acc
    ELSE IF topic[i] = NullValue THEN Loop(acc, i + 1, to)
    ELSE Loop(LoopBody(acc, i), i + 1, to)

IngestInit ==
    /\ topic = <<>>
    /\ resolved = 0
    /\ committed = 0
    /\ ipc = "idle"
    /\ batch = [from |-> 1, to |-> 0]
    /\ logEntries = <<>>
    /\ acked = <<>>
    /\ written = <<>>
    /\ outcome = "none"
    /\ heartbeats = 0
    /\ sink = <<>>
    /\ nextEventId = 1
    /\ clock = 0

\* A producer appends a record to the partition.
Produce(v) ==
    /\ Len(topic) < MaxTopic
    /\ topic' = Append(topic, v)
    /\ UNCHANGED <<resolved, committed, ipc, batch, logEntries, acked, written,
                   outcome, heartbeats, sink, nextEventId, clock>>
    /\ UNCHANGED notIngest

\* A buggy variant of the batch start: with no log entry to write the callback
\* returns, leaving out the commit and the heartbeat.
BatchStartSkipsCommit(to) ==
    /\ ipc = "idle"
    /\ clock < MaxBatches
    /\ resolved < to /\ to <= Len(topic)
    /\ LET from == resolved + 1
           run == Loop([entries |-> <<>>, acks |-> <<>>, id |-> nextEventId], from, to)
       IN /\ batch' = [from |-> from, to |-> to]
          /\ IF ValidOffsets(from, to) = {}
             THEN /\ logEntries' = <<>>
                  /\ acked' = <<>>
                  /\ UNCHANGED <<nextEventId, resolved>>
                  /\ ipc' = "returned"
                  /\ outcome' = "empty"
             ELSE /\ logEntries' = run.entries
                  /\ acked' = run.acks
                  /\ nextEventId' = run.id
                  /\ resolved' = run.acks[Len(run.acks)]
                  /\ ipc' = IF run.entries # <<>> THEN "insert" ELSE "returned"
                  /\ outcome' = IF run.entries # <<>> THEN "running" ELSE "empty"
    /\ written' = <<>>
    /\ heartbeats' = 0
    /\ clock' = clock + 1
    /\ UNCHANGED <<topic, committed, sink>>
    /\ UNCHANGED notIngest

\* A buggy variant of the batch start: a batch without any payload is not
\* returned from at once but goes on to the commit and the heartbeat.
BatchStartNoEarlyReturn(to) ==
    /\ ipc = "idle"
    /\ clock < MaxBatches
    /\ resolved < to /\ to <= Len(topic)
    /\ LET from == resolved + 1
           run == Loop([entries |-> <<>>, acks |-> <<>>, id |-> nextEventId], from, to)
       IN /\ batch' = [from |-> from, to |-> to]
          /\ logEntries' = run.entries
          /\ acked' = run.acks
          /\ nextEventId' = run.id
          /\ resolved' = IF run.acks = <<>> THEN resolved ELSE run.acks[Len(run.acks)]
          /\ ipc' = IF run.entries # <<>> THEN "insert" ELSE "commit"
          /\ outcome' = "running"
    /\ written' = <<>>
    /\ heartbeats' = 0
    /\ clock' = clock + 1
    /\ UNCHANGED <<topic, committed, sink>>
    /\ UNCHANGED notIngest

\* A buggy variant of the batch start: an invalid entry is skipped without
\* resolveOffset.
BatchStartNoAckOnInvalid(to) ==
    /\ ipc = "idle"
    /\ clock < MaxBatches
    /\ resolved < to /\ to <= Len(topic)
    /\ LET from == resolved + 1
           run == Loop([entries |-> <<>>, acks |-> <<>>, id |-> nextEventId], from, to)
           acks == SelectSeq(run.acks,
                     LAMBDA i : ~JsonParse(topic[i]).ok
                                \/ ~MissingRequired(JsonParse(topic[i]).obj))
       IN /\ batch' = [from |-> from, to |-> to]
          /\ logEntries' = run.entries
          /\ acked' = acks
          /\ nextEventId' = run.id
          /\ resolved' = IF acks = <<>> THEN resolved ELSE acks[Len(acks)]
          /\ ipc' = IF ValidOffsets(from, to) = {} THEN "returned"
                    ELSE IF run.entries # <<>> THEN "insert" ELSE "commit"
          /\ outcome' = IF ValidOffsets(from, to) = {} THEN "empty" ELSE "running"
    /\ written' = <<>>
    /\ heartbeats' = 0
    /\ clock' = clock + 1
    /\ UNCHANGED <<topic, committed, sink>>
    /\ UNCHANGED notIngest

\* The runner hands the callback the batch of offsets resolved+1..to, and the
\* callback runs to its first await: the empty-payload filter, the early
\* return, the for loop with its resolveOffset calls.
BatchStart(to) ==
    /\ ipc = "idle"
    /\ clock < MaxBatches
    /\ resolved < to /\ to <= Len(topic)
    /\ LET from == resolved + 1
           run == Loop([entries |-> <<>>, acks |-> <<>>, id |-> nextEventId], from, to)
       IN /\ batch' = [from |-> from, to |-> to]
          /\ IF ValidOffsets(from, to) = {}
             THEN \* 'No valid messages in batch, skipping': return
                  /\ logEntries' = <<>>
                  /\ acked' = <<>>
                  /\ UNCHANGED <<nextEventId, resolved>>
                  /\ ipc' = "returned"
                  /\ outcome' = "empty"
             ELSE /\ logEntries' = run.entries
                  /\ acked' = run.acks
                  /\ nextEventId' = run.id
                  \* resolveOffset(o) moves the resolved position to o
                  /\ resolved' = run.acks[Len(run.acks)]
                  /\ ipc' = IF run.entries # <<>> THEN "insert" ELSE "commit"
                  /\ outcome' = "running"
    /\ written' = <<>>
    /\ heartbeats' = 0
    /\ clock' = clock + 1
    /\ UNCHANGED <<topic, committed, sink>>
    /\ UNCHANGED notIngest

\* await clickhouseClient.insert(...) resolves: the rows are in log_events.
InsertOk ==
    /\ ipc = "insert"
    /\ sink' = sink \o logEntries
    /\ written' = logEntries
    /\ ipc' = "commit"
    /\ UNCHANGED <<topic, resolved, committed, batch, logEntries, acked, outcome,
                   heartbeats, nextEventId, clock>>
    /\ UNCHANGED notIngest

\* await clickhouseClient.insert(...) rejects: logged, and the callback returns.
InsertFails ==
    /\ ipc = "insert"
    /\ ipc' = "returned"
    /\ outcome' = "insertFailed"
    /\ UNCHANGED <<topic, resolved, committed, batch, logEntries, acked, written,
                   heartbeats, sink, nextEventId, clock>>
    /\ UNCHANGED notIngest

\* await commitOffsetsIfNecessary() resolves: the resolved position is
\* committed when the client finds a commit due, else nothing is sent.
CommitOk ==
    /\ ipc = "commit"
    /\ committed' \in {committed, resolved}
    /\ ipc' = "heartbeat"
    /\ UNCHANGED <<topic, resolved, batch, logEntries, acked, written, outcome,
                   heartbeats, sink, nextEventId, clock>>
    /\ UNCHANGED notIngest

\* await commitOffsetsIfNecessary() rejects: control goes to catch (batchError).
CommitThrows ==
    /\ ipc = "commit"
    /\ ipc' = "catch"
    /\ UNCHANGED <<topic, resolved, committed, batch, logEntries, acked, written,
                   outcome, heartbeats, sink, nextEventId, clock>>
    /\ UNCHANGED notIngest

\* await heartbeat() resolves: the callback is through.
HeartbeatOk ==
    /\ ipc = "heartbeat"
    /\ heartbeats' = heartbeats + 1
    /\ ipc' = "returned"
    /\ outcome' = "ok"
    /\ UNCHANGED <<topic, resolved, committed, batch, logEntries, acked, written,
                   sink, nextEventId, clock>>
    /\ UNCHANGED notIngest

\* await heartbeat() rejects: control goes to catch (batchError).
HeartbeatThrows ==
    /\ ipc = "heartbeat"
    /\ ipc' = "catch"
    /\ UNCHANGED <<topic, resolved, committed, batch, logEntries, acked, written,
                   outcome, heartbeats, sink, nextEventId, clock>>
    /\ UNCHANGED notIngest

\* A buggy variant of the catch block: a failing heartbeat() is not caught and
\* the callback's promise rejects.
CatchHeartbeatPropagates(ok) ==
    /\ ipc = "catch"
    /\ heartbeats' = IF ok THEN heartbeats + 1 ELSE heartbeats
    /\ ipc' = IF ok THEN "returned" ELSE "thrown"
    /\ outcome' = IF ok THEN "batchError" ELSE "thrown"
    /\ UNCHANGED <<topic, resolved, committed, batch, logEntries, acked, written,
                   sink, nextEventId, clock>>
    /\ UNCHANGED notIngest

\* catch (batchError): heartbeat() is tried once more; its failure is logged.
CatchHeartbeat(ok) ==
    /\ ipc = "catch"
    /\ heartbeats' = IF ok THEN heartbeats + 1 ELSE heartbeats
    /\ ipc' = "returned"
    /\ outcome' = IF ok THEN "batchError" ELSE "batchError+heartbeatError"
    /\ UNCHANGED <<topic, resolved, committed, batch, logEntries, acked, written,
                   sink, nextEventId, clock>>
    /\ UNCHANGED notIngest

\* The callback has returned without throwing: consumer.run was given no
\* eachBatchAutoResolve or autoCommit override, so the runner resolves the
\* batch's last offset and commits, then fetches again.
RunnerResume ==
    /\ ipc = "returned"
    /\ resolved' = batch.to
    /\ committed' = batch.to
    /\ ipc' = "idle"
    /\ UNCHANGED <<topic, batch, logEntries, acked, written, outcome, heartbeats,
                   sink, nextEventId, clock>>
    /\ UNCHANGED notIngest

\* The server process stops while a batch is in hand (SIGTERM, SIGINT, a crash)
\* and is started again: initKafkaConsumer connects and subscribes with the same
\* groupId, and the group resumes after the position committed to the broker.
Restart ==
    /\ ipc # "idle"
    /\ resolved' = committed
    /\ ipc' = "idle"
    /\ outcome' = "restarted"
    \* the callback's locals go with the process
    /\ batch' = [from |-> 1, to |-> 0]
    /\ logEntries' = <<>>
    /\ acked' = <<>>
    /\ written' = <<>>
    /\ heartbeats' = 0
    /\ UNCHANGED <<topic, committed, sink, nextEventId, clock>>
    /\ UNCHANGED notIngest

IngestNext ==
    \/ \E v \in Payloads : Produce(v)
    \/ \E to \in 1..MaxTopic : BatchStart(to)
    \/ InsertOk
    \/ InsertFails
    \/ CommitOk
    \/ CommitThrows
    \/ HeartbeatOk
    \/ HeartbeatThrows
    \/ \E ok \in BOOLEAN : CatchHeartbeat(ok)
    \/ RunnerResume

\* The consumer over several lives of the server process.
RedeliverNext ==
    \/ \E v \in Payloads : Produce(v)
    \/ \E to \in 1..MaxTopic : BatchStart(to)
    \/ InsertOk
    \/ InsertFails
    \/ CommitOk
    \/ CommitThrows
    \/ HeartbeatOk
    \/ HeartbeatThrows
    \/ \E ok \in BOOLEAN : CatchHeartbeat(ok)
    \/ RunnerResume
    \/ Restart

\* ------------------------------------------------------------ build executor

\* const CONCURRENCY = 100, scaled down with MaxFiles: the pool is kept smaller
\* than the largest file list, so that runs with more files than workers and
\* runs with fewer are both followed.
CONCURRENCY == 2

\* (completed + failed) % 10 === 0, the 10 scaled down with MaxFiles so that a
\* run passes a multiple of it before its last file.
ProgressEvery == 2

Workers == 1..MaxFiles

Min(a, b) == IF a < b THEN a ELSE b

\* filesToUpload[i], for the 0-based index i.
FileName(i) == <<"index.html", "main.js", "logo.png", "app.css">>[i + 1]

\* What a build prints: {stdout, stderr}, each a text (a sequence of words).
BuildOutputs ==
    { [stdout |-> <<>>, stderr |-> <<>>],
      [stdout |-> <<"built", "in", "2s">>, stderr |-> <<"npm", "WARN">>],
      [stdout |-> <<"deployment", "completed">>, stderr |-> <<>>] }

\* The texts of script.ts, word by word.
TExecuting == <<"Executing", "script.js">>
TNoOutDir == <<"Error:", "Output", "directory", "does", "not", "exist:", "output">>
TStarting == <<"Starting", "build", "process...">>
TBuildOutput(out) == <<"Build", "output:">> \o out
TBuildWarnings(err) == <<"Build", "warnings/errors:">> \o err
TBuildComplete == <<"Build", "Complete">>
TNoDistDir == <<"Error:", "Dist", "directory", "does", "not", "exist:", "output/dist">>
TDiscovering == <<"Discovering", "files", "to", "upload...">>
TFound(n) == <<"Found", ToString(n), "files", "to", "upload">>
TNoFiles == <<"No", "files", "found", "to", "upload">>
TGettingFiles(e) == <<"Error", "getting", "files", "to", "upload:">> \o e
TUploading(f) == <<"Uploading", f>>
TUploaded(f) == <<"Uploaded", f>>
TErrorUploading(f, e) == <<"Error", "uploading", f \o ":">> \o e
TFailedToUpload(f, e) == <<"Failed", "to", "upload", f \o ":">> \o e
TProgress(c, f, n) ==
    <<"Progress:", ToString(c + f) \o "/" \o ToString(n), "files", "processed",
      "(" \o ToString(c), "success,", ToString(f), "failed)">>
TUploadComplete(c, f) ==
    <<"Upload", "complete!", "Success:", ToString(c) \o ",", "Failed:", ToString(f)>>
TWarning(f) ==
    <<"Warning:", ToString(f), "files", "failed", "to", "upload.", "Check", "logs",
      "above", "for", "details.">>
TErrorInUpload(e) == <<"Error", "in", "uploadFiles:">> \o e
TFatal(e) == <<"Fatal", "error", "in", "init:">> \o e

\* The errors thrown, as `${error}` prints them.
ENoOutDir == <<"Error:", "Output", "directory", "does", "not", "exist:", "output">>
ENoDistDir == <<"Error:", "Dist", "directory", "does", "not", "exist:", "output/dist">>
EBuildFailed == <<"Error:", "Command", "failed:", "npm", "run", "build">>
EReaddir == <<"Error:", "ENOTDIR:", "not", "a", "directory">>
EAccess == <<"Error:", "ENOENT:", "no", "such", "file">>
EPutObject == <<"AccessDenied:", "Access", "Denied">>

\* process.env[name]: the value, or undefined.
Undefined == [undefined |-> TRUE]
ProcessEnv(env, name) == IF name \in DOMAIN env THEN [value |-> env[name]] ELSE Undefined

\* const PROJECT_ID = process.env.PROJECT_ID
PROJECT_ID(env) == ProcessEnv(env, "PROJECT_ID")

\* const DEPLOYMENT_ID = process.env.DEPLOYMENT_ID
DEPLOYMENT_ID(env) == ProcessEnv(env, "DEPLOYMENT_ID")

\* One "key:value," member of JSON.stringify's output; a member whose value is
\* undefined is left out.
JsonMember(key, v) == IF v = Undefined THEN "" ELSE key \o ":" \o v.value \o ","

\* The value of the record publishLog sends:
\* JSON.stringify({ PROJECT_ID, DEPLOYMENT_ID, log })
PublishLogValue(env, log) ==
    "{" \o JsonMember("PROJECT_ID", PROJECT_ID(env))
        \o JsonMember("DEPLOYMENT_ID", DEPLOYMENT_ID(env))
        \o "log:" \o log \o "}"

ExecInit ==
    /\ epc = "notStarted"
    /\ emitted = <<>>
    /\ nfiles = 0
    /\ nextIndex = 0
    /\ completed = 0
    /\ failed = 0
    /\ wpc = [w \in Workers |-> "unused"]
    /\ widx = [w \in Workers |-> 0]
    /\ werr = [w \in Workers |-> <<>>]

\* init(): producer.connect(), whatever its result, then the first line.
ExecConnect ==
    /\ epc = "connect"
    /\ emitted' = Append(emitted, TExecuting)
    /\ epc' = "accessOut"
    /\ UNCHANGED uploadVars
    /\ UNCHANGED notExec

\* init(): fs.promises.access(outDirPath); a missing directory is fatal.
ExecAccessOut(ok) ==
    /\ epc = "accessOut"
    /\ IF ok
       THEN /\ emitted' = Append(emitted, TStarting)
            /\ epc' = "build"
       ELSE /\ emitted' = emitted \o <<TNoOutDir, TFatal(ENoOutDir)>>
            /\ epc' = "exit1"
    /\ UNCHANGED uploadVars
    /\ UNCHANGED notExec

\* A buggy variant of the build failure: it is logged as a warning and the
\* executor goes on to the uploader.
ExecBuildFailsUploads ==
    /\ epc = "build"
    /\ emitted' = Append(emitted, TBuildWarnings(EBuildFailed))
    /\ epc' = "accessDist"
    /\ UNCHANGED uploadVars
    /\ UNCHANGED notExec

\* A buggy variant of the build failure: the build is run once more before the
\* executor gives up.
ExecBuildFailsRetries ==
    /\ epc = "build"
    /\ emitted' = Append(emitted, TFatal(EBuildFailed))
    /\ epc' = IF \A k \in DOMAIN emitted : emitted[k] # TFatal(EBuildFailed)
              THEN "build" ELSE "exit1"
    /\ UNCHANGED uploadVars
    /\ UNCHANGED notExec

\* init(): execAsync(npm install && npm run build) rejects: fatal.
ExecBuildFails ==
    /\ epc = "build"
    /\ emitted' = Append(emitted, TFatal(EBuildFailed))
    /\ epc' = "exit1"
    /\ UNCHANGED uploadVars
    /\ UNCHANGED notExec

\* init(): the build succeeds; its output is logged, then 'Build Complete',
\* and uploadFiles() starts with its access of output/dist.
ExecBuildOk(out) ==
    /\ epc = "build"
    /\ emitted' = emitted
          \o (IF out.stdout # <<>> THEN <<TBuildOutput(out.stdout)>> ELSE <<>>)
          \o (IF out.stderr # <<>> THEN <<TBuildWarnings(out.stderr)>> ELSE <<>>)
          \o <<TBuildComplete>>
    /\ epc' = "accessDist"
    /\ UNCHANGED uploadVars
    /\ UNCHANGED notExec

\* uploadFiles(): fs.promises.access(distFolderPath); a missing directory is
\* logged, rethrown by uploadFiles' catch and fatal in init.
ExecAccessDist(ok) ==
    /\ epc = "accessDist"
    /\ IF ok
       THEN /\ emitted' = Append(emitted, TDiscovering)
            /\ epc' = "discover"
       ELSE /\ emitted' = emitted \o
                  <<TNoDistDir, TErrorInUpload(ENoDistDir), TFatal(ENoDistDir)>>
            /\ epc' = "exit1"
    /\ UNCHANGED uploadVars
    /\ UNCHANGED notExec

\* getFilesToUpload() throws (readdir fails): logged at each level, fatal.
ExecDiscoverFails ==
    /\ epc = "discover"
    /\ emitted' = emitted \o
          <<TGettingFiles(EReaddir), TErrorInUpload(EReaddir), TFatal(EReaddir)>>
    /\ epc' = "exit1"
    /\ UNCHANGED uploadVars
    /\ UNCHANGED notExec

\* A buggy variant of the spawn: one worker per file, whatever CONCURRENCY is.
ExecDiscoverWorkerPerFile(n) ==
    /\ epc = "discover"
    /\ nfiles' = n
    /\ completed' = 0
    /\ failed' = 0
    /\ UNCHANGED werr
    /\ IF n = 0
       THEN /\ emitted' = emitted \o <<TFound(0), TNoFiles>>
            /\ epc' = "done"
            /\ UNCHANGED <<nextIndex, wpc, widx>>
       ELSE /\ emitted' = Append(emitted, TFound(n))
            /\ epc' = "uploading"
            /\ nextIndex' = n
            /\ wpc' = [w \in Workers |-> IF w <= n THEN "access" ELSE "unused"]
            /\ widx' = [w \in Workers |-> IF w <= n THEN w - 1 ELSE 0]
    /\ UNCHANGED notExec

\* getFilesToUpload() returns n files. With none, uploadFiles returns; else the
\* workers are spawned, W = min(CONCURRENCY, n) of them, and each runs to its
\* first await: worker w claims index w-1 and starts uploadOne on it.
ExecDiscover(n) ==
    /\ epc = "discover"
    /\ nfiles' = n
    /\ completed' = 0
    /\ failed' = 0
    /\ UNCHANGED werr
    /\ IF n = 0
       THEN /\ emitted' = emitted \o <<TFound(0), TNoFiles>>
            /\ epc' = "done"
            /\ UNCHANGED <<nextIndex, wpc, widx>>
       ELSE /\ emitted' = Append(emitted, TFound(n))
            /\ epc' = "uploading"
            /\ nextIndex' = Min(CONCURRENCY, n)
            /\ wpc' = [w \in Workers |->
                          IF w <= Min(CONCURRENCY, n) THEN "access" ELSE "unused"]
            /\ widx' = [w \in Workers |->
                          IF w <= Min(CONCURRENCY, n) THEN w - 1 ELSE 0]
    /\ UNCHANGED notExec

\* The progress line is due: a multiple of ProgressEvery, or all files.
ProgressDue(c, f) == (c + f) % ProgressEvery = 0 \/ c + f = nfiles

\* A buggy variant of the claim step: a worker that finds the list exhausted
\* does not leave its loop.
ClaimNextNoBreak(w) ==
    /\ nextIndex' = IF nextIndex >= nfiles THEN nextIndex ELSE nextIndex + 1
    /\ IF nextIndex >= nfiles
       THEN UNCHANGED <<wpc, widx>>
       ELSE /\ wpc' = [wpc EXCEPT ![w] = "access"]
            /\ widx' = [widx EXCEPT ![w] = nextIndex]

\* A buggy variant of the claim step: the worker takes the index before the one
\* it has just counted.
ClaimNextOffByOne(w) ==
    /\ nextIndex' = nextIndex + 1
    /\ IF nextIndex >= nfiles
       THEN /\ wpc' = [wpc EXCEPT ![w] = "stopped"]
            /\ UNCHANGED widx
       ELSE /\ wpc' = [wpc EXCEPT ![w] = "access"]
            /\ widx' = [widx EXCEPT ![w] = nextIndex - 1]

\* The top of the worker's while loop: currentIndex = nextIndex++, then break
\* or the next uploadOne.
ClaimNext(w) ==
    /\ nextIndex' = nextIndex + 1
    /\ IF nextIndex >= nfiles
       THEN /\ wpc' = [wpc EXCEPT ![w] = "stopped"]
            /\ UNCHANGED widx
       ELSE /\ wpc' = [wpc EXCEPT ![w] = "access"]
            /\ widx' = [widx EXCEPT ![w] = nextIndex]

\* uploadOne: fs.promises.access(absPath), then the 'Uploading' line; a failed
\* access is logged and rethrown.
WorkerAccess(w, ok) ==
    /\ epc = "uploading" /\ wpc[w] = "access"
    /\ IF ok
       THEN /\ emitted' = Append(emitted, TUploading(FileName(widx[w])))
            /\ wpc' = [wpc EXCEPT ![w] = "send"]
       ELSE /\ emitted' = Append(emitted, TErrorUploading(FileName(widx[w]), EAccess))
            /\ wpc' = [wpc EXCEPT ![w] = "tallyFail"]
    /\ werr' = [werr EXCEPT ![w] = IF ok THEN <<>> ELSE EAccess]
    /\ UNCHANGED <<epc, nfiles, nextIndex, completed, failed, widx>>
    /\ UNCHANGED notExec

\* uploadOne: s3Client.send(PutObjectCommand), then the 'Uploaded' line; a
\* failed put is logged and rethrown.
WorkerSend(w, ok) ==
    /\ epc = "uploading" /\ wpc[w] = "send"
    /\ IF ok
       THEN /\ emitted' = Append(emitted, TUploaded(FileName(widx[w])))
            /\ wpc' = [wpc EXCEPT ![w] = "tallyOk"]
       ELSE /\ emitted' = Append(emitted, TErrorUploading(FileName(widx[w]), EPutObject))
            /\ wpc' = [wpc EXCEPT ![w] = "tallyFail"]
    /\ werr' = [werr EXCEPT ![w] = IF ok THEN <<>> ELSE EPutObject]
    /\ UNCHANGED <<epc, nfiles, nextIndex, completed, failed, widx>>
    /\ UNCHANGED notExec

\* worker: uploadOne returned: completed++, then the progress check; with a
\* progress line the worker awaits its publishLog, without one it claims on.
WorkerTallyOk(w) ==
    /\ epc = "uploading" /\ wpc[w] = "tallyOk"
    /\ completed' = completed + 1
    /\ IF ProgressDue(completed + 1, failed)
       THEN /\ emitted' = Append(emitted, TProgress(completed + 1, failed, nfiles))
            /\ wpc' = [wpc EXCEPT ![w] = "claim"]
            /\ UNCHANGED <<nextIndex, widx>>
       ELSE /\ ClaimNext(w)
            /\ UNCHANGED emitted
    /\ UNCHANGED <<epc, nfiles, failed, werr>>
    /\ UNCHANGED notExec

\* A buggy variant of the worker's catch: the failure is logged, not counted.
WorkerTallyFailUncounted(w) ==
    /\ epc = "uploading" /\ wpc[w] = "tallyFail"
    /\ emitted' = Append(emitted, TFailedToUpload(FileName(widx[w]), werr[w]))
    /\ wpc' = [wpc EXCEPT ![w] = "progress"]
    /\ UNCHANGED <<epc, nfiles, nextIndex, completed, failed, widx, werr>>
    /\ UNCHANGED notExec

\* worker: uploadOne threw: failed++, and the 'Failed to upload' line.
WorkerTallyFail(w) ==
    /\ epc = "uploading" /\ wpc[w] = "tallyFail"
    /\ failed' = failed + 1
    /\ emitted' = Append(emitted, TFailedToUpload(FileName(widx[w]), werr[w]))
    /\ wpc' = [wpc EXCEPT ![w] = "progress"]
    /\ UNCHANGED <<epc, nfiles, nextIndex, completed, widx, werr>>
    /\ UNCHANGED notExec

\* worker: back from the 'Failed to upload' publishLog: the progress check,
\* on the tallies as they are now.
WorkerProgress(w) ==
    /\ epc = "uploading" /\ wpc[w] = "progress"
    /\ IF ProgressDue(completed, failed)
       THEN /\ emitted' = Append(emitted, TProgress(completed, failed, nfiles))
            /\ wpc' = [wpc EXCEPT ![w] = "claim"]
            /\ UNCHANGED <<nextIndex, widx>>
       ELSE /\ ClaimNext(w)
            /\ UNCHANGED emitted
    /\ UNCHANGED <<epc, nfiles, completed, failed, werr>>
    /\ UNCHANGED notExec

\* worker: back from the progress publishLog: the loop's next turn.
WorkerClaim(w) ==
    /\ epc = "uploading" /\ wpc[w] = "claim"
    /\ ClaimNext(w)
    /\ UNCHANGED <<epc, emitted, nfiles, completed, failed, werr>>
    /\ UNCHANGED notExec

\* A buggy variant of the end of uploadFiles: failed uploads make it throw, and
\* init exits with 1.
ExecJoinThrowsOnFailed ==
    /\ epc = "uploading"
    /\ \A w \in Workers : wpc[w] \in {"stopped", "unused"}
    /\ emitted' = emitted \o <<TUploadComplete(completed, failed)>>
          \o (IF failed > 0 THEN <<TWarning(failed), TFatal(TWarning(failed))>> ELSE <<>>)
    /\ epc' = IF failed > 0 THEN "exit1" ELSE "done"
    /\ UNCHANGED uploadVars
    /\ UNCHANGED notExec

\* uploadFiles(): Promise.all of the workers resolved: the summary lines, and
\* init() returns.
ExecJoin ==
    /\ epc = "uploading"
    /\ \A w \in Workers : wpc[w] \in {"stopped", "unused"}
    /\ emitted' = emitted \o <<TUploadComplete(completed, failed)>>
          \o (IF failed > 0 THEN <<TWarning(failed)>> ELSE <<>>)
    /\ epc' = "done"
    /\ UNCHANGED uploadVars
    /\ UNCHANGED notExec

\* ---------------------------------------------- log path and the dashboard

\* lastLog.log.includes('deployment completed')
Sentinel == <<"deployment", "completed">>

\* text.includes(pattern), on texts as sequences of words.
Includes(text, pattern) ==
    \E i \in 1..(Len(text) - Len(pattern) + 1) :
        SubSeq(text, i, i + Len(pattern) - 1) = pattern

ObserveInit ==
    /\ delivered = 0
    /\ lost = {}
    /\ isDeploying = FALSE
    /\ ostatus = "project-created"
    /\ polledEnd = FALSE

\* The executor's init() has returned, or the process has exited.
ExecEnded == epc \in {"done", "exit1"}

\* The deployment's rows in log_events: the texts of the lines handled and not
\* lost.
PersistedLines == {emitted[i] : i \in (1..delivered) \ lost}

\* handleDeploy: POST /deploy answered 'queued'; the deployment's executor is
\* launched.
HandleDeploy ==
    /\ epc = "notStarted" /\ ~isDeploying
    /\ isDeploying' = TRUE
    /\ ostatus' = "deploying"
    /\ epc' = "connect"
    /\ UNCHANGED <<emitted, delivered, lost, polledEnd>>
    /\ UNCHANGED notObserve

\* The next emitted line has reached log_events, through the broker and the
\* ingestion consumer.
LinePersisted ==
    /\ delivered < Len(emitted)
    /\ delivered' = delivered + 1
    /\ UNCHANGED <<epc, emitted, lost, isDeploying, ostatus, polledEnd>>
    /\ UNCHANGED notObserve

\* A buggy variant of the loss of a line: the failed publish is thrown into
\* init, which takes it as fatal.
LineLostAborts ==
    /\ delivered < Len(emitted)
    /\ Cardinality(lost) < MaxLost
    /\ delivered' = delivered + 1
    /\ lost' = lost \cup {delivered + 1}
    /\ epc' = "exit1"
    /\ emitted' = Append(emitted, TFatal(<<"KafkaJSError:", "send", "failed">>))
    /\ UNCHANGED <<isDeploying, ostatus, polledEnd>>
    /\ UNCHANGED notObserve

\* The next emitted line is lost on the way: publishLog fell back to the
\* console, or the ingestion consumer skipped the record.
LineLost ==
    /\ delivered < Len(emitted)
    /\ Cardinality(lost) < MaxLost
    /\ delivered' = delivered + 1
    /\ lost' = lost \cup {delivered + 1}
    /\ UNCHANGED <<epc, emitted, isDeploying, ostatus, polledEnd>>
    /\ UNCHANGED notObserve

\* The polling effect: GET /logs/:id answers the deployment's rows, in an order
\* the query does not fix; the dashboard looks for the sentinel in the last.
Poll ==
    /\ isDeploying
    /\ polledEnd' = (ExecEnded /\ delivered = Len(emitted))
    /\ IF PersistedLines = {}
       THEN UNCHANGED <<isDeploying, ostatus>>
       ELSE \E lastLog \in PersistedLines :
               IF Includes(lastLog, Sentinel)
               THEN isDeploying' = FALSE /\ ostatus' = "completed"
               ELSE UNCHANGED <<isDeploying, ostatus>>
    /\ UNCHANGED <<epc, emitted, delivered, lost>>
    /\ UNCHANGED notObserve

ObserveNext ==
    \/ HandleDeploy
    \/ ExecConnect
    \/ \E ok \in BOOLEAN : ExecAccessOut(ok)
    \/ ExecBuildFails
    \/ \E out \in BuildOutputs : ExecBuildOk(out)
    \/ \E ok \in BOOLEAN : ExecAccessDist(ok)
    \/ ExecDiscoverFails
    \/ \E n \in 0..MaxWatchedFiles : ExecDiscover(n)
    \/ \E w \in Workers, ok \in BOOLEAN : WorkerAccess(w, ok)
    \/ \E w \in Workers, ok \in BOOLEAN : WorkerSend(w, ok)
    \/ \E w \in Workers : WorkerTallyOk(w)
    \/ \E w \in Workers : WorkerTallyFail(w)
    \/ \E w \in Workers : WorkerProgress(w)
    \/ \E w \in Workers : WorkerClaim(w)
    \/ ExecJoin
    \/ LinePersisted
    \/ LineLost
    \/ Poll

\* ------------------------------------------------------------- live fan-out

Observers == 1..MaxObservers

\* The deployments whose executors publish on the relay, and their projects:
\* D1 and D2 are deployments of the same project.
RelayDeployments == {"D1", "D2", "D3"}
ProjectOf(d) == IF d = "D3" THEN "P2" ELSE "P1"

\* The room names a client may send with 'subscribe'.
Rooms == {"logs:P1", "logs:P2", "logs:D1"}

\* The log texts published.
RelayTexts == {"Build Complete"}

\* The 'subscribe' events handled so far.
Joins == [o \in Observers |-> Len(inbox[o])]
RECURSIVE SumTo(_, _)
SumTo(f, n) == IF n = 0 THEN 0 ELSE f[n] + SumTo(f, n - 1)

\* publishLog of the relay-based executor:
\* publisher.publish(`logs:${PROJECT_ID}`, JSON.stringify({ log }))
RelayChannel(projectId) == "logs:" \o projectId
RelayPayload(log) == "{log:" \o log \o "}"

FanoutInit ==
    /\ joined = [o \in Observers |-> {}]
    /\ inbox = [o \in Observers |-> <<>>]
    /\ published = <<>>

\* A buggy variant of the join: the lines published to the room so far are
\* replayed to the socket.
SubscribeReplays(o, channel) ==
    /\ SumTo(Joins, MaxObservers) < MaxJoins
    /\ joined' = [joined EXCEPT ![o] = @ \cup {channel}]
    /\ inbox' = [inbox EXCEPT ![o] =
          @ \o <<"Joined " \o channel>>
            \o [k \in 1..Len(SelectSeq(published, LAMBDA m : m.channel = channel)) |->
                  SelectSeq(published, LAMBDA m : m.channel = channel)[k].payload]]
    /\ UNCHANGED published
    /\ UNCHANGED notFanout

\* socket.on('subscribe', channel): the socket joins the room and is told so.
Subscribe(o, channel) ==
    /\ SumTo(Joins, MaxObservers) < MaxJoins
    /\ joined' = [joined EXCEPT ![o] = @ \cup {channel}]
    /\ inbox' = [inbox EXCEPT ![o] = Append(@, "Joined " \o channel)]
    /\ UNCHANGED published
    /\ UNCHANGED notFanout

\* The executor of deployment d calls publishLog(log). The publish goes to the
\* relay's channel; no code of the server subscribes to the relay or emits to a
\* room, so no socket is sent anything. The record keeps which sockets were in
\* the room of that name at the time.
RelayPublish(d, log) ==
    /\ Len(published) < MaxPublished
    /\ published' = Append(published,
          [deployment |-> d,
           log |-> log,
           channel |-> RelayChannel(ProjectOf(d)),
           payload |-> RelayPayload(log),
           members |-> {o \in Observers : RelayChannel(ProjectOf(d)) \in joined[o]}])
    /\ UNCHANGED <<joined, inbox>>
    /\ UNCHANGED notFanout

FanoutNext ==
    \/ \E o \in Observers, channel \in Rooms : Subscribe(o, channel)
    \/ \E d \in RelayDeployments, log \in RelayTexts : RelayPublish(d, log)

\* ------------------------------------------------------- API server process

Signals == 1..MaxSignals

\* exitCode while the process runs, and after process.exit(code).
NoExit == [exited |-> FALSE]
Exit(code) == [exited |-> TRUE, code |-> code]

Running == exitCode = NoExit

\* One call on a client or on the process: by whom (0: startServer, s: the
\* gracefulShutdown started by signal s) and whether it succeeded.
Call(name, ok, by) == [call |-> name, ok |-> ok, by |-> by]

\* startServer has created the app and registered gracefulShutdown for SIGTERM
\* and SIGINT; initKafkaConsumer is about to connect.
ServerInit ==
    /\ spc = "connect"
    /\ shut = [s \in Signals |-> "idle"]
    /\ slog = <<>>
    /\ exitCode = NoExit

\* initKafkaConsumer: await consumer.connect()
BootConnect(ok) ==
    /\ Running /\ spc = "connect"
    /\ slog' = Append(slog, Call("consumer.connect", ok, 0))
    /\ spc' = IF ok THEN "subscribe" ELSE "disconnect"
    /\ UNCHANGED <<shut, exitCode>>
    /\ UNCHANGED notServer

\* initKafkaConsumer: await consumer.subscribe(...)
BootSubscribe(ok) ==
    /\ Running /\ spc = "subscribe"
    /\ slog' = Append(slog, Call("consumer.subscribe", ok, 0))
    /\ spc' = IF ok THEN "run" ELSE "disconnect"
    /\ UNCHANGED <<shut, exitCode>>
    /\ UNCHANGED notServer

\* A buggy variant of the last boot step: a failing consumer.run is logged and
\* the server goes on to listen.
BootRunSwallows(ok) ==
    /\ Running /\ spc = "run"
    /\ slog' = slog \o <<Call("consumer.run", ok, 0), Call("listen", TRUE, 0)>>
    /\ spc' = "listening"
    /\ UNCHANGED <<shut, exitCode>>
    /\ UNCHANGED notServer

\* initKafkaConsumer: await consumer.run(...); when it resolves startServer
\* calls app.listen.
BootRun(ok) ==
    /\ Running /\ spc = "run"
    /\ IF ok
       THEN /\ slog' = slog \o <<Call("consumer.run", TRUE, 0), Call("listen", TRUE, 0)>>
            /\ spc' = "listening"
       ELSE /\ slog' = Append(slog, Call("consumer.run", FALSE, 0))
            /\ spc' = "disconnect"
    /\ UNCHANGED <<shut, exitCode>>
    /\ UNCHANGED notServer

\* initKafkaConsumer's catch: consumer.disconnect() is tried, the error is
\* rethrown, and startServer's catch calls process.exit(1).
BootDisconnect(ok) ==
    /\ Running /\ spc = "disconnect"
    /\ slog' = slog \o <<Call("consumer.disconnect", ok, 0), Call("exit:1", TRUE, 0)>>
    /\ spc' = "failed"
    /\ exitCode' = Exit(1)
    /\ UNCHANGED shut
    /\ UNCHANGED notServer

\* SIGTERM or SIGINT arrives: gracefulShutdown starts.
Signal(s) ==
    /\ Running /\ shut[s] = "idle"
    /\ \A t \in Signals : t < s => shut[t] # "idle"
    /\ shut' = [shut EXCEPT ![s] = "consumer"]
    /\ slog' = Append(slog, Call("signal", TRUE, s))
    /\ UNCHANGED <<spc, exitCode>>
    /\ UNCHANGED notServer

\* A buggy variant of the first release: its failure is not caught and ends
\* the process.
ShutConsumerAborts(s, ok) ==
    /\ Running /\ shut[s] = "consumer"
    /\ IF ok
       THEN /\ slog' = Append(slog, Call("consumer.disconnect", TRUE, s))
            /\ shut' = [shut EXCEPT ![s] = "clickhouse"]
            /\ UNCHANGED exitCode
       ELSE /\ slog' = slog \o <<Call("consumer.disconnect", FALSE, s),
                                  Call("exit:1", TRUE, s)>>
            /\ shut' = [shut EXCEPT ![s] = "done"]
            /\ exitCode' = Exit(1)
    /\ UNCHANGED spc
    /\ UNCHANGED notServer

\* gracefulShutdown: disconnectKafkaConsumer(), its failure logged.
ShutConsumer(s, ok) ==
    /\ Running /\ shut[s] = "consumer"
    /\ slog' = Append(slog, Call("consumer.disconnect", ok, s))
    /\ shut' = [shut EXCEPT ![s] = "clickhouse"]
    /\ UNCHANGED <<spc, exitCode>>
    /\ UNCHANGED notServer

\* closeDatabaseConnections: clickhouseClient.close(), its failure logged.
ShutClickhouse(s, ok) ==
    /\ Running /\ shut[s] = "clickhouse"
    /\ slog' = Append(slog, Call("clickhouse.close", ok, s))
    /\ shut' = [shut EXCEPT ![s] = "prisma"]
    /\ UNCHANGED <<spc, exitCode>>
    /\ UNCHANGED notServer

\* closeDatabaseConnections: prisma.$disconnect(), its failure logged; then
\* gracefulShutdown calls process.exit(0).
ShutPrisma(s, ok) ==
    /\ Running /\ shut[s] = "prisma"
    /\ slog' = slog \o <<Call("prisma.$disconnect", ok, s), Call("exit:0", TRUE, s)>>
    /\ shut' = [shut EXCEPT ![s] = "done"]
    /\ exitCode' = Exit(0)
    /\ UNCHANGED spc
    /\ UNCHANGED notServer

ServerNext ==
    \/ \E ok \in BOOLEAN : BootConnect(ok)
    \/ \E ok \in BOOLEAN : BootSubscribe(ok)
    \/ \E ok \in BOOLEAN : BootRun(ok)
    \/ \E ok \in BOOLEAN : BootDisconnect(ok)
    \/ \E s \in Signals : Signal(s)
    \/ \E s \in Signals, ok \in BOOLEAN : ShutConsumer(s, ok)
    \/ \E s \in Signals, ok \in BOOLEAN : ShutClickhouse(s, ok)
    \/ \E s \in Signals, ok \in BOOLEAN : ShutPrisma(s, ok)

\* ------------------------------------------------------ log query interface

\* The ids a request can carry in its path: the uuids of two deployments with
\* log lines, a uuid without any, and a text that is no uuid.
RequestIds == {"D1", "D2", "D9", "not-a-uuid"}

\* z.string().uuid(): the texts that are uuids.
Uuids == {"D1", "D2", "D9"}

NoAnswer == [code |-> 0]

\* The rows of log_events that the WHERE clause of GET /logs/:id selects, in
\* the order they were inserted.
Matching(id) == SelectSeq(sink, LAMBDA r : r.deployment_id = id)

\* The orders in which n rows can come back.
ReturnOrders(n) ==
    {f \in [1..n -> 1..n] : \A i, j \in 1..n : f[i] = f[j] => i = j}

\* The columns of the SELECT list.
Selected(r) ==
    [event_id |-> r.event_id, deployment_id |-> r.deployment_id,
     log |-> r.log, timestamp |-> r.timestamp]

\* The bodies GET /logs/:id can answer with: the query carries no ORDER BY, so
\* the store returns the selected rows in an order of its choosing, and the
\* handler passes them on as they come.
LogsResponses(id) ==
    LET rows == Matching(id) IN
    {[k \in 1..Len(rows) |-> Selected(rows[f[k]])] : f \in ReturnOrders(Len(rows))}

QueryInit == answer = NoAnswer

\* A buggy variant of the handler: the query has no WHERE clause.
HandleLogsNoFilter(id, ok) ==
    /\ IF id \notin Uuids
       THEN answer' = [code |-> 400, id |-> id, error |-> "Validation failed",
                       queried |-> FALSE]
       ELSE IF ok
       THEN answer' = [code |-> 200, id |-> id, queried |-> TRUE,
                       logs |-> [k \in DOMAIN sink |-> Selected(sink[k])]]
       ELSE answer' = [code |-> 500, id |-> id, error |-> "Internal server error",
                       queried |-> TRUE]
    /\ UNCHANGED notQuery

\* GET /logs/:id: a path parameter that is no uuid is answered with 400 at
\* once; else log_events is queried and the rows are sent as they come back;
\* a query that throws goes through asyncHandler to errorHandler (500).
HandleLogs(id, ok) ==
    /\ IF id \notin Uuids
       THEN answer' = [code |-> 400, id |-> id, error |-> "Validation failed",
                       queried |-> FALSE]
       ELSE IF ok
       THEN \E logs \in LogsResponses(id) :
                answer' = [code |-> 200, id |-> id, queried |-> TRUE, logs |-> logs]
       ELSE answer' = [code |-> 500, id |-> id, error |-> "Internal server error",
                       queried |-> TRUE]
    /\ UNCHANGED notQuery

\* The consumer filling log_events, and the queries made meanwhile.
QueryNext ==
    \/ \E v \in Payloads : Produce(v)
    \/ \E to \in 1..MaxTopic : BatchStart(to)
    \/ InsertOk
    \/ InsertFails
    \/ CommitOk
    \/ CommitThrows
    \/ HeartbeatOk
    \/ HeartbeatThrows
    \/ \E ok \in BOOLEAN : CatchHeartbeat(ok)
    \/ RunnerResume
    \/ \E id \in RequestIds, ok \in BOOLEAN : HandleLogs(id, ok)

\* ------------------------------------------------------------ artifact store

\* How many files each build puts out.
MaxStoreFiles == 2

\* The executors that run side by side, named by their deployment: two of
\* project P1 and one of project P2.
Builds == RelayDeployments

StoreFiles == {FileName(i) : i \in 0..(MaxStoreFiles - 1)}

\* The process environment of the executor of deployment d.
BuildEnv(d) == TaskEnvironment(GitURL(ProjectOf(d)), ProjectOf(d), d)

\* Key: `__outputs/${PROJECT_ID}/${filePathStr}`
Key(env, filePathStr) == "__outputs/" \o PROJECT_ID(env).value \o "/" \o filePathStr

StoreInit ==
    /\ store = {}
    /\ sent = [d \in Builds |-> [f \in StoreFiles |-> "none"]]

\* A buggy variant of the upload: the key holds the deployment id too.
UploadOnePerDeployment(d, f, ok) ==
    /\ sent[d][f] = "none"
    /\ sent' = [sent EXCEPT ![d][f] = IF ok THEN "put" ELSE "failed"]
    /\ LET key == Key(BuildEnv(d), d \o "/" \o f) IN
       store' = IF ok
                THEN {o \in store : o.key # key}
                        \cup {[key |-> key, deployment |-> d, file |-> f]}
                ELSE store
    /\ UNCHANGED notStore

\* uploadOne of the executor of deployment d on file f: s3Client.send of the
\* PutObjectCommand; when it goes through the object under the key is the
\* file of this build, whatever was there.
UploadOne(d, f, ok) ==
    /\ sent[d][f] = "none"
    /\ sent' = [sent EXCEPT ![d][f] = IF ok THEN "put" ELSE "failed"]
    /\ LET key == Key(BuildEnv(d), f) IN
       store' = IF ok
                THEN {o \in store : o.key # key}
                        \cup {[key |-> key, deployment |-> d, file |-> f]}
                ELSE store
    /\ UNCHANGED notStore

StoreNext == \E d \in Builds, f \in StoreFiles, ok \in BOOLEAN : UploadOne(d, f, ok)

\* The executor alone, from its launch to the end of init().
UploadNext ==
    \/ HandleDeploy
    \/ ExecConnect
    \/ \E ok \in BOOLEAN : ExecAccessOut(ok)
    \/ ExecBuildFails
    \/ \E out \in BuildOutputs : ExecBuildOk(out)
    \/ \E ok \in BOOLEAN : ExecAccessDist(ok)
    \/ ExecDiscoverFails
    \/ \E n \in 0..MaxFiles : ExecDiscover(n)
    \/ \E w \in Workers, ok \in BOOLEAN : WorkerAccess(w, ok)
    \/ \E w \in Workers, ok \in BOOLEAN : WorkerSend(w, ok)
    \/ \E w \in Workers : WorkerTallyOk(w)
    \/ \E w \in Workers : WorkerTallyFail(w)
    \/ \E w \in Workers : WorkerProgress(w)
    \/ \E w \in Workers : WorkerClaim(w)
    \/ ExecJoin

\* ------------------------------------------------------------ specifications

vars == <<dispatchVars, ingestVars, execVars, observeVars, fanoutVars, serverVars,
         queryVars, storeVars>>

Init ==
    /\ DispatchInit /\ IngestInit /\ ExecInit /\ ObserveInit /\ FanoutInit
    /\ ServerInit /\ QueryInit /\ StoreInit

Next ==
    \/ DispatchNext \/ RedeliverNext \/ ObserveNext \/ FanoutNext \/ ServerNext
    \/ QueryNext \/ StoreNext

Spec == Init /\ [][Next]_vars

SpecDispatch == Init /\ [][DispatchNext]_vars

SpecIngest == Init /\ [][IngestNext]_vars

SpecRedeliver == Init /\ [][RedeliverNext]_vars

SpecObserve == Init /\ [][ObserveNext]_vars

SpecUpload == Init /\ [][UploadNext]_vars

\* The uploader's run under the scheduling of the event loop: an upload attempt
\* that is open settles, well or badly; a worker whose await has settled runs
\* its continuation; and the continuation of Promise.all runs once every
\* worker has returned.
UploadFairness ==
    /\ \A w \in Workers :
           /\ WF_vars(\E ok \in BOOLEAN : WorkerAccess(w, ok))
           /\ WF_vars(\E ok \in BOOLEAN : WorkerSend(w, ok))
           /\ WF_vars(WorkerTallyOk(w))
           /\ WF_vars(WorkerTallyFail(w))
           /\ WF_vars(WorkerProgress(w))
           /\ WF_vars(WorkerClaim(w))
    /\ WF_vars(ExecJoin)

SpecUploadFair == Init /\ [][UploadNext]_vars /\ UploadFairness

SpecFanout == Init /\ [][FanoutNext]_vars

SpecServer == Init /\ [][ServerNext]_vars

SpecQuery == Init /\ [][QueryNext]_vars

SpecStore == Init /\ [][StoreNext]_vars

\* ------------------------------------------------------ claims: orchestrator

Range(q) == {q[i] : i \in DOMAIN q}

\* The places of event e in a request's trace.
Places(q, e) == {i \in DOMAIN q : q[i] = e}

\* Every e in q has an f somewhere before it.
Precedes(q, f, e) == \A i \in Places(q, e) : \E j \in Places(q, f) : j < i

\* The Deployment rows with id d.
Rows(d) == {i \in DOMAIN deployments : deployments[i].id = d}

\* The request passed validation and its project was found.
Accepted(r) == dpc[r] \in {"create", "created", "launching"} \/ trace[r] # <<>>

\* C1: a launch attempt of a request is always preceded by the creation of its
\* Deployment row, which is there with status QUEUED and the request's project;
\* a request whose create failed never launches.
C1_CreatedBeforeLaunch ==
    \A r \in Requests :
        /\ "launch" \in Range(trace[r]) =>
              /\ Precedes(trace[r], "created", "launch")
              /\ \E i \in Rows(ddep[r]) :
                    /\ deployments[i].status = "QUEUED"
                    /\ deployments[i].projectId = dbody[r].projectId
        /\ "createFailed" \in Range(trace[r]) =>
              /\ "launch" \notin Range(trace[r])
              /\ Rows(ddep[r]) = {}

C1_Witness ==
    \E r, q \in Requests :
        /\ "launch" \in Range(trace[r])
        /\ "createFailed" \in Range(trace[q]) /\ dpc[q] = "done"

\* C2: once a request's launch call is issued the caller has already been sent
\* 202 {status: queued, deploymentId}, and that response stays what it is when
\* the launch is accepted and when it fails.
C2_RespondedBeforeLaunch ==
    \A r \in Requests :
        "launch" \in Range(trace[r]) =>
            /\ Precedes(trace[r], "responded", "launch")
            /\ response[r] = Queued(ddep[r])
            /\ ddep[r] # 0

C2_Witness ==
    \E r, q \in Requests :
        /\ "launchAccepted" \in Range(trace[r])
        /\ "launchFailed" \in Range(trace[q])
        /\ response[r].status = "queued" /\ response[q].status = "queued"
        /\ response[r].deploymentId # response[q].deploymentId

C4_LaunchFailureOnlyLogged ==
    \A r \in Requests :
        "launchFailed" \in Range(trace[r]) =>
            /\ Cardinality(Rows(ddep[r])) = 1
            /\ \A i \in Rows(ddep[r]) : deployments[i].status = "QUEUED"
            /\ Cardinality(Places(trace[r], "launch")) = 1
            /\ "log:RunTask failed" \in Range(trace[r])
            /\ response[r] = Queued(ddep[r])

C4_Witness ==
    \E r, q \in Requests :
        /\ r # q
        /\ "launchFailed" \in Range(trace[r]) /\ dpc[r] = "done"
        /\ dpc[q] = "done"

\* The requests answered 202 'queued'.
Queueds == {r \in Requests : response[r].code = 202}

C5_AcceptedIsDispatched ==
    \A r \in Requests :
        "launchAccepted" \in Range(trace[r]) =>
            \A i \in Rows(ddep[r]) : deployments[i].status = "DISPATCHED"

\* The order of the Deployment state machine.
Rank(status) ==
    CASE status = "QUEUED" -> 0
      [] status = "DISPATCHED" -> 1
      [] OTHER -> 2

\* C7: no step deletes a Deployment row or moves its status back.
C7_StatusMonotonic ==
    [][\A i \in DOMAIN deployments :
          /\ i \in DOMAIN deployments'
          /\ deployments'[i].id = deployments[i].id
          /\ Rank(deployments'[i].status) >= Rank(deployments[i].status)]_vars

C7_Witness ==
    /\ Len(deployments) = 2
    /\ \E r, q \in Requests :
          /\ "launchFailed" \in Range(trace[r])
          /\ "launchAccepted" \in Range(trace[q])

\* ------------------------------------------------- claims: ingestion consumer

\* The payloads that are malformed, listed one by one: not parseable, or
\* without a DEPLOYEMENT_ID, or without a log text.
MalformedPayloads ==
    { EmptyValue,
      "{log:b}",
      "{DEPLOYEMENT_ID:D1}",
      "{DEPLOYEMENT_ID:D1,log:}",
      "{PROJECT_ID:P1,DEPLOYMENT_ID:D1,log:a}",
      "{PROJECT_ID:P1,log:a}",
      "not json" }

BatchOffsets == batch.from..batch.to

\* The callback is past its bulk write: the write succeeded, or there was
\* nothing to write in a batch that had payloads.
PastWrite ==
    \/ ipc \in {"commit", "heartbeat", "catch"}
    \/ ipc = "returned" /\ outcome \in {"ok", "batchError", "batchError+heartbeatError"}

\* The callback has returned after such a write and the runner has the batch
\* back.
HandedBack ==
    ipc = "idle" /\ outcome \in {"ok", "batchError", "batchError+heartbeatError"}

\* C8: past the bulk write of a batch of N records, M of them malformed (a
\* record without payload counts as unparseable), N-M LogEvents were persisted,
\* one per well-formed record, and the callback has called resolveOffset once on
\* each position that carries a payload, which resolves every position up to
\* the last of them; when the runner has the batch back all N positions are
\* resolved.
C8_PersistsWellFormedAcksAll ==
    LET withPayload == {i \in BatchOffsets : topic[i] # NullValue}
        N == Cardinality(BatchOffsets)
        M == Cardinality({i \in BatchOffsets :
                 topic[i] \in MalformedPayloads \cup {NullValue}})
    IN /\ (PastWrite \/ HandedBack) =>
             /\ Len(written) = N - M
             /\ {written[k].offset : k \in DOMAIN written} =
                   {i \in BatchOffsets : topic[i] \notin MalformedPayloads \cup {NullValue}}
             /\ \A k \in DOMAIN written : \E j \in DOMAIN sink : sink[j] = written[k]
             /\ Range(acked) = withPayload
             /\ Len(acked) = Cardinality(withPayload)
       /\ PastWrite => \A i \in withPayload : i <= resolved
       /\ HandedBack => resolved = batch.to

\* The scenario of the spec: [{D1, a}, {log: b}, {D1, c}] gives two LogEvents,
\* a and c, and three resolved positions.
C8_Witness ==
    /\ ipc = "returned" /\ outcome = "ok"
    /\ batch = [from |-> 1, to |-> 3]
    /\ topic = <<"{DEPLOYEMENT_ID:D1,log:a}", "{log:b}", "{DEPLOYEMENT_ID:D1,log:c}">>
    /\ Len(written) = 2
    /\ written[1].log = "a" /\ written[2].log = "c"
    /\ acked = <<1, 2, 3>>

\* C9: the position of a well-formed entry is resolved only once the bulk write
\* holding the entry has succeeded, and a heartbeat is sent only after that.
C9_AdvanceOnlyAfterWrite ==
    /\ \A k \in DOMAIN logEntries :
          logEntries[k].offset \in Range(acked) => logEntries[k] \in Range(written)
    /\ heartbeats > 0 => written = logEntries

\* C10: when the bulk write fails the callback returns with no position of the
\* batch resolved: the resolved position is where it was before the batch.
C10_NothingAckedOnWriteFailure ==
    (ipc = "returned" /\ outcome = "insertFailed") =>
        /\ acked = <<>>
        /\ resolved = batch.from - 1

\* A record the consumer takes as well-formed: it has a payload that parses and
\* carries both required fields.
WellFormed(v) ==
    v # NullValue /\ JsonParse(v).ok /\ ~MissingRequired(JsonParse(v).obj)

\* log_events holds a row made from the record at offset i.
Persisted(i) == \E j \in DOMAIN sink : sink[j].offset = i

\* C11: no well-formed record is lost to a failed bulk write: every well-formed
\* record below the position committed for the group, which the broker will not
\* deliver again, has a LogEvent in log_events.
C11_CommittedIsPersisted ==
    \A i \in 1..committed : WellFormed(topic[i]) => Persisted(i)

\* C12: a record whose payload does not parse or lacks DEPLOYEMENT_ID or log is
\* never persisted; the callback resolves its position in the loop, before any
\* write, and the well-formed records of the same batch still become the log
\* entries of the batch; the resolved position never moves back and a new batch
\* starts after it, so the record is not handed to the callback again.
C12_MalformedSkippedAndAcked ==
    /\ [](/\ \A j \in DOMAIN sink : topic[sink[j].offset] \notin MalformedPayloads
          /\ ipc # "idle" =>
                /\ \A i \in BatchOffsets : topic[i] \in MalformedPayloads =>
                        i \in Range(acked) /\ i <= resolved
                /\ outcome # "empty" =>
                        {logEntries[k].offset : k \in DOMAIN logEntries} =
                            {i \in BatchOffsets : WellFormed(topic[i])})
    /\ [][/\ resolved' >= resolved
           /\ batch' # batch => batch'.from > resolved]_vars

\* A batch of an unparseable record followed by a well-formed one, at the bulk
\* write: both positions resolved, one log entry built.
C12_Witness ==
    /\ ipc = "insert"
    /\ topic = <<"not json", "{DEPLOYEMENT_ID:D1,log:a}">>
    /\ batch = [from |-> 1, to |-> 2]
    /\ acked = <<1, 2>>
    /\ Len(logEntries) = 1 /\ logEntries[1].offset = 2

\* C13: the callback leaves catch (batchError) only by returning: heartbeat()
\* is called, the result is a batch error with the heartbeat sent or with the
\* heartbeat's own failure logged, the callback never ends by throwing, and
\* after a batch error the runner goes on to fetch.
C13_BatchErrorKeepsAlive ==
    /\ [](/\ ipc \in {"idle", "insert", "commit", "heartbeat", "catch", "returned"}
          /\ outcome \in {"batchError", "batchError+heartbeatError"} =>
                ipc \in {"returned", "idle"}
          /\ ipc = "returned" => ENABLED RunnerResume)
    /\ [][ipc = "catch" /\ ipc' # "catch" =>
            /\ ipc' = "returned"
            /\ \/ outcome' = "batchError" /\ heartbeats' = heartbeats + 1
               \/ outcome' = "batchError+heartbeatError" /\ heartbeats' = heartbeats]_vars

\* The runner has resumed after a batch error whose heartbeat failed too.
C13_Witness ==
    /\ ipc = "idle"
    /\ outcome = "batchError+heartbeatError"
    /\ resolved = batch.to

\* The (deploymentId, log text) entries of a sequence of LogEntry rows, each
\* with the offset it was made from.
Lines(rows) ==
    [k \in DOMAIN rows |->
        [deployment_id |-> rows[k].deployment_id, log |-> rows[k].log,
         offset |-> rows[k].offset]]

\* What the callback's loop would build if the batch in hand were delivered
\* again now.
Reprocessed ==
    Loop([entries |-> <<>>, acks |-> <<>>, id |-> nextEventId],
         batch.from, batch.to).entries

\* C14: the entries the callback tries to persist are a function of the batch:
\* for N records with M malformed they are the N-M (deploymentId, log text)
\* pairs of the well-formed records, in order, and processing the same batch
\* again builds the same pairs under event ids not used before; every row of
\* log_events has an event id of its own, and rows made from the same record
\* carry the same pair.
C14_RetryRepeatsTheAttempt ==
    /\ (ipc # "idle" /\ outcome # "empty") =>
          LET good == {i \in BatchOffsets : WellFormed(topic[i])}
              N == Cardinality(BatchOffsets)
              M == Cardinality(BatchOffsets \ good)
          IN /\ Len(logEntries) = N - M
             /\ \A k \in DOMAIN logEntries :
                   /\ logEntries[k].offset \in good
                   /\ k > 1 => logEntries[k - 1].offset < logEntries[k].offset
                   /\ logEntries[k].deployment_id =
                         JsonParse(topic[logEntries[k].offset]).obj.DEPLOYEMENT_ID
                   /\ logEntries[k].log = JsonParse(topic[logEntries[k].offset]).obj.log
             /\ Lines(Reprocessed) = Lines(logEntries)
             /\ \A k \in DOMAIN Reprocessed :
                   /\ \A j \in DOMAIN logEntries :
                         Reprocessed[k].event_id # logEntries[j].event_id
                   /\ \A j \in DOMAIN sink : Reprocessed[k].event_id # sink[j].event_id
    /\ \A j, k \in DOMAIN sink :
          /\ j # k => sink[j].event_id # sink[k].event_id
          /\ sink[j].offset = sink[k].offset =>
                sink[j].deployment_id = sink[k].deployment_id /\ sink[j].log = sink[k].log

\* The batch [{D1, a}, {log: b}, {D1, c}] was written, the process restarted
\* before the commit, and the same batch was written again: log_events holds
\* two LogEvents for each of the lines a and c.
C14_Witness ==
    /\ topic = <<"{DEPLOYEMENT_ID:D1,log:a}", "{log:b}", "{DEPLOYEMENT_ID:D1,log:c}">>
    /\ Len(sink) = 4
    /\ Lines(sink) = Lines(SubSeq(sink, 1, 2)) \o Lines(SubSeq(sink, 1, 2))
    /\ sink[1].event_id # sink[3].event_id

\* The environments an executor of deployment D1 of project P1 can run in: the
\* one runDeploymentTask launches it with, and one that sets DEPLOYMENT_ID.
ExecutorEnvironments ==
    { TaskEnvironment(GitURL("P1"), "P1", "D1"),
      [GIT_REPOSITORY__URL |-> GitURL("P1"), PROJECT_ID |-> "P1", DEPLOYMENT_ID |-> "D1"] }

\* C15: a record the executor published for deployment D1 is taken as
\* well-formed by the consumer: past the bulk write of a batch that holds it,
\* log_events has a LogEvent made from it and owned by D1.
C15_ExecutorLinesPersisted ==
    PastWrite =>
        \A i \in BatchOffsets : \A env \in ExecutorEnvironments :
            topic[i] = PublishLogValue(env, "a") =>
                \E j \in DOMAIN sink : sink[j].offset = i /\ sink[j].deployment_id = "D1"

\* ------------------------------------- claims: orchestrator to executor handover

\* C16: for a launch the launcher accepted, the executor started with the task's
\* environment reads the project id of the request and the id of the
\* Deployment row the handler created.
C16_DescriptorReachesExecutor ==
    \A r \in Requests :
        "launchAccepted" \in Range(trace[r]) =>
            LET projectId == SafeParse(dbody[r]).projectId
                env == TaskEnvironment(GitURL(projectId), projectId, ddep[r])
            IN /\ PROJECT_ID(env) = [value |-> projectId]
               /\ DEPLOYMENT_ID(env) = [value |-> ddep[r]]

\* ------------------------------------------------------------ claims: uploader

\* The indices of the discovered files.
FileIndices == 0..(nfiles - 1)

\* The workers inside uploadOne, and those holding a file whose outcome is not
\* tallied yet.
InFlight == {w \in Workers : wpc[w] \in {"access", "send"}}
Holding == {w \in Workers : wpc[w] \in {"access", "send", "tallyOk", "tallyFail"}}

\* How many times uploadOne was called on file i: the calls still at their
\* access check, and those past it, each of which logged 'Uploading <file>' or
\* the access error.
Attempts(i) ==
    Cardinality({w \in Workers : wpc[w] = "access" /\ widx[w] = i})
    + Cardinality(Places(emitted, TUploading(FileName(i))))
    + Cardinality(Places(emitted, TErrorUploading(FileName(i), EAccess)))

\* The pool is running or has run over a non-empty file list.
PoolStarted == epc \in {"uploading", "done"} /\ nfiles > 0

\* C17: in a run over D files, no two workers hold the same file; the files
\* claimed so far are the indices below nextIndex, each attempted once, and no
\* other file is attempted; when the pool has ended every index 0..D-1 was
\* attempted exactly once.
C17_EachFileClaimedOnce ==
    PoolStarted =>
        /\ \A v, w \in Holding : v # w => widx[v] # widx[w]
        /\ \A w \in Holding : widx[w] \in FileIndices
        /\ \A i \in FileIndices : Attempts(i) = IF i < nextIndex THEN 1 ELSE 0
        /\ epc = "done" => \A i \in FileIndices : Attempts(i) = 1

\* A run over three files with two workers has ended, one upload having failed.
C17_Witness ==
    /\ epc = "done" /\ nfiles = 3 /\ failed = 1
    /\ Cardinality({w \in Workers : wpc[w] = "stopped"}) = 2

\* C18: during a run over D files succeeded + failed is the number of files
\* claimed and no longer held, never above D; succeeded is the number of
\* uploads that went through and whose worker has counted them, failed the
\* number of 'Failed to upload' lines; when the run has ended
\* succeeded + failed = D.
C18_TalliesAddUp ==
    PoolStarted =>
        LET claimed == IF nextIndex < nfiles THEN nextIndex ELSE nfiles
            uploaded == {k \in DOMAIN emitted :
                            \E i \in FileIndices : emitted[k] = TUploaded(FileName(i))}
            failures == {k \in DOMAIN emitted :
                            \E i \in FileIndices : \E e \in {EAccess, EPutObject} :
                                emitted[k] = TFailedToUpload(FileName(i), e)}
        IN /\ completed + failed + Cardinality(Holding) = claimed
           /\ completed + failed <= nfiles
           /\ completed =
                 Cardinality(uploaded) - Cardinality({w \in Workers : wpc[w] = "tallyOk"})
           /\ failed = Cardinality(failures)
           /\ epc = "done" => completed + failed = nfiles

\* A run over three files has ended with two uploads failed, one at the access
\* check and one at the put.
C18_Witness ==
    /\ epc = "done" /\ nfiles = 3
    /\ completed = 1 /\ failed = 2
    /\ \E i, j \in FileIndices :
          /\ Places(emitted, TFailedToUpload(FileName(i), EAccess)) # {}
          /\ Places(emitted, TFailedToUpload(FileName(j), EPutObject)) # {}

\* C19: a started pool has W = min(CONCURRENCY, D) workers, no more and no
\* fewer, and at most W uploads are in flight.
C19_PoolOfMinWorkers ==
    PoolStarted =>
        /\ Cardinality({w \in Workers : wpc[w] # "unused"}) = Min(CONCURRENCY, nfiles)
        /\ Cardinality(InFlight) <= Min(CONCURRENCY, nfiles)

\* Three files, a pool of CONCURRENCY workers, every worker inside uploadOne and
\* a file still unclaimed.
C19_Witness ==
    /\ epc = "uploading" /\ nfiles = 3 /\ nfiles > CONCURRENCY
    /\ Cardinality(InFlight) = CONCURRENCY
    /\ nextIndex < nfiles

\* C20: once init() has called uploadFiles(), which it does right after the
\* 'Build Complete' line, uploadFiles returns normally, so the process does not
\* end by the fatal exit.
C20_UploaderReturnsNormally ==
    Places(emitted, TBuildComplete) # {} => epc # "exit1"

\* The progress lines that report m files processed.
ProgressLines(m) ==
    {k \in DOMAIN emitted :
        \E c \in 0..m : emitted[k] = TProgress(c, m - c, nfiles)}

\* C21: when a run over D files has ended, a progress line was emitted for
\* every multiple of ProgressEvery the number of processed files went through,
\* and one for D.
C21_ProgressAtEveryMultiple ==
    (epc = "done" /\ nfiles > 0) =>
        \A m \in 1..nfiles :
            (m % ProgressEvery = 0 \/ m = nfiles) => ProgressLines(m) # {}

\* C37: in a run over D files no count of processed files is reported by two
\* progress lines.
C37_ProgressCountReportedOnce ==
    PoolStarted => \A m \in 1..nfiles : Cardinality(ProgressLines(m)) <= 1

\* C22: a started pool never leads to the fatal exit, whatever uploads fail;
\* a run that ended with failed > 0 has returned normally, its last two lines
\* being the summary with the failure count and the warning with it.
C22_FailedUploadsDoNotFailTheRun ==
    /\ [](PoolStarted =>
            /\ epc # "exit1"
            /\ (epc = "done" /\ failed > 0) =>
                  /\ emitted[Len(emitted) - 1] = TUploadComplete(completed, failed)
                  /\ emitted[Len(emitted)] = TWarning(failed)
                  /\ Places(emitted, TFatal(EPutObject)) = {}
                  /\ Places(emitted, TFatal(EAccess)) = {})
    /\ [][epc = "uploading" => epc' \in {"uploading", "done"}]_vars

\* A run over three files has ended normally with every upload failed.
C22_Witness ==
    /\ epc = "done" /\ nfiles = 3
    /\ failed = 3 /\ completed = 0
    /\ emitted[Len(emitted)] = TWarning(3)

\* The errors init() takes as fatal.
FatalErrors == {ENoOutDir, EBuildFailed, ENoDistDir, EReaddir}

ErrorLines ==
    {TNoOutDir, TFatal(EBuildFailed), TNoDistDir, TGettingFiles(EReaddir),
     TErrorInUpload(ENoDistDir), TErrorInUpload(EReaddir)}

\* C24: once an unrecoverable error was reported (no output directory, a
\* failed build command, an exception out of uploadFiles) the executor has
\* exited with 1, its last line being 'Fatal error in init: <error>', emitted
\* once; after the exit nothing of the executor moves, and the build is started
\* at most once.
C24_FatalErrorEndsTheRun ==
    /\ []((\E l \in ErrorLines : Places(emitted, l) # {}) =>
            /\ epc = "exit1"
            /\ \E e \in FatalErrors :
                  /\ emitted[Len(emitted)] = TFatal(e)
                  /\ Cardinality(Places(emitted, TFatal(e))) = 1)
    /\ [](Cardinality(Places(emitted, TStarting)) <= 1)
    /\ [][epc = "exit1" => UNCHANGED execVars]_vars

\* The uploader threw on a failed readdir and the executor exited with 1.
C24_Witness ==
    /\ epc = "exit1"
    /\ emitted[Len(emitted)] = TFatal(EReaddir)
    /\ Places(emitted, TBuildComplete) # {}

\* ---------------------------------------------------------- claims: fan-out

C26_ChannelPerDeployment ==
    \A i, j \in DOMAIN published :
        published[i].deployment # published[j].deployment =>
            published[i].channel # published[j].channel

\* --------------------------------------------- claims: executor and dashboard

\* C6: when the executor's init() has returned after uploading, every line it
\* emitted is in log_events and the dashboard has polled since, the dashboard
\* has matched its sentinel and no longer takes the deployment as in progress.
C6_EndedRunRecognised ==
    (epc = "done" /\ nfiles > 0 /\ delivered = Len(emitted) /\ lost = {} /\ polledEnd)
        => ~isDeploying

\* ---------------------------------------------- claims: records without payload

\* The batch in hand has records and the value of each is in `kind`.
AllIn(kind) == BatchOffsets # {} /\ \A i \in BatchOffsets : topic[i] \in kind

\* What the callback does with the records whose value is in `kind`: none is
\* persisted, resolveOffset is not called on any, and a batch made of them only
\* is returned from at once: no position resolved or committed by the
\* callback, no write, no heartbeat.
Discarded(kind) ==
    /\ \A j \in DOMAIN sink : topic[sink[j].offset] \notin kind
    /\ \A i \in BatchOffsets : topic[i] \in kind => i \notin Range(acked)
    /\ (AllIn(kind) /\ ipc # "idle") =>
           /\ ipc = "returned" /\ outcome = "empty"
           /\ acked = <<>> /\ logEntries = <<>> /\ written = <<>>
           /\ resolved = batch.from - 1
           /\ committed < batch.from
           /\ heartbeats = 0

\* C35, as stated: the records with an empty payload, be the value absent or
\* of zero bytes, are discarded in this way.
C35_EmptyPayloadDiscarded == Discarded({NullValue, EmptyValue})

\* C35, amended: the records whose value is absent (null) are discarded in
\* this way; a value of zero bytes passes the filter and is handled as an
\* unparseable record.
C35_AbsentPayloadDiscarded == Discarded({NullValue})

\* A batch of two records without value: the callback has returned at once.
C35_Witness ==
    /\ ipc = "returned" /\ outcome = "empty"
    /\ topic = <<NullValue, NullValue>>
    /\ batch = [from |-> 1, to |-> 2]
    /\ resolved = 0

\* The batch in hand has records with a payload, none of them well-formed.
NoneWellFormed ==
    /\ \E i \in BatchOffsets : topic[i] # NullValue
    /\ \A i \in BatchOffsets : ~WellFormed(topic[i])

\* C36: with a batch whose records with payload are all malformed the callback
\* never stands at the bulk write and log_events is left as it is; the callback
\* has resolved every position that has a payload and goes on to
\* commitOffsetsIfNecessary and to a heartbeat, in the try or in the catch;
\* when the runner has the batch back the batch's last position is committed,
\* and the next batch starts after it.
C36_MalformedBatchCommitted ==
    /\ []((NoneWellFormed /\ ipc # "idle") =>
            /\ ipc \in {"commit", "heartbeat", "catch", "returned"}
            /\ outcome \in {"running", "ok", "batchError", "batchError+heartbeatError"}
            /\ logEntries = <<>> /\ written = <<>>
            /\ Range(acked) = {i \in BatchOffsets : topic[i] # NullValue}
            /\ \A i \in Range(acked) : i <= resolved
            /\ outcome = "ok" => heartbeats = 1
            /\ outcome = "batchError" => heartbeats >= 1)
    /\ []((NoneWellFormed /\ ipc = "idle") =>
            /\ outcome \in {"ok", "batchError", "batchError+heartbeatError"}
            /\ committed = batch.to /\ resolved = batch.to)
    /\ [][NoneWellFormed => sink' = sink]_vars
    /\ [][(NoneWellFormed /\ batch' # batch) => batch'.from > batch.to]_vars

\* A batch of an unparseable record and one without a deployment id is back
\* with the runner: nothing written, both positions committed, the heartbeat
\* sent.
C36_Witness ==
    /\ ipc = "idle" /\ outcome = "ok"
    /\ topic = <<"not json", "{log:b}">>
    /\ batch = [from |-> 1, to |-> 2]
    /\ sink = <<>>
    /\ committed = 2 /\ heartbeats = 1

\* -------------------------------------------------------- claims: log query

\* C27: every answer of the log query for a deployment lists the deployment's
\* rows by ascending timestamp.
C27_QueryOrderedByTimestamp ==
    \A id \in {"D1", "D2"} : \A logs \in LogsResponses(id) :
        \A j, k \in DOMAIN logs : j < k => logs[j].timestamp <= logs[k].timestamp

\* C33: a GET /logs/:id whose id is no uuid is answered with 400 and log_events
\* is not queried; one whose id is a uuid and whose query goes through is
\* answered with 200 and the rows of log_events that carry this deployment id:
\* every such row once, and no row of another deployment.
C33_QueryReturnsTheDeploymentsRows ==
    [][answer' # answer =>
         IF answer'.id \notin Uuids
         THEN answer'.code = 400 /\ ~answer'.queried
         ELSE /\ answer'.queried
              /\ answer'.code \in {200, 500}
              /\ answer'.code = 200 =>
                     LET logs == answer'.logs
                         mine == {j \in DOMAIN sink : sink[j].deployment_id = answer'.id}
                     IN /\ Len(logs) = Cardinality(mine)
                        /\ \A k \in DOMAIN logs : logs[k].deployment_id = answer'.id
                        /\ \A j \in mine : \E k \in DOMAIN logs :
                               /\ logs[k].event_id = sink[j].event_id
                               /\ logs[k].log = sink[j].log
                               /\ logs[k].timestamp = sink[j].timestamp]_vars

\* log_events holds two rows of D1 and one of D2, and the query for D1 was
\* answered with the two.
C33_Witness ==
    /\ answer.code = 200 /\ answer.id = "D1"
    /\ Len(answer.logs) = 2
    /\ Len(sink) = 3
    /\ Cardinality({j \in DOMAIN sink : sink[j].deployment_id = "D2"}) = 1

\* ------------------------------------------------- claims: API server process

\* The calls made so far by one caller, in order.
CallsBy(by) == SelectSeq(slog, LAMBDA c : c.by = by)

\* The positions of slog where `by` made the call `name`.
CallPlaces(name, by) == {k \in DOMAIN slog : slog[k].call = name /\ slog[k].by = by}

\* One of the three steps that start the consumer has failed.
BootFailed ==
    \E k \in DOMAIN slog :
        /\ slog[k].by = 0 /\ ~slog[k].ok
        /\ slog[k].call \in {"consumer.connect", "consumer.subscribe", "consumer.run"}

ShutdownOrder ==
    <<"signal", "consumer.disconnect", "clickhouse.close", "prisma.$disconnect", "exit:0">>

\* C29: the calls of the shutdown a signal has started are, whether they
\* succeed or fail, the first calls of: disconnect the consumer, close the
\* ClickHouse client, disconnect Prisma, exit with 0; after each release, failed
\* or not, the next one is what the shutdown does next; and a process that has
\* exited with 0 has made all of them.
C29_ShutdownReleasesInOrder ==
    /\ \A s \in Signals :
           LET calls == CallsBy(s) IN
           /\ Len(calls) <= Len(ShutdownOrder)
           /\ \A k \in DOMAIN calls : calls[k].call = ShutdownOrder[k]
           /\ shut[s] = "idle" <=> Len(calls) = 0
           /\ shut[s] = "consumer" <=> Len(calls) = 1
           /\ shut[s] = "clickhouse" <=> Len(calls) = 2
           /\ shut[s] = "prisma" <=> Len(calls) = 3
           /\ shut[s] = "done" <=> Len(calls) = 5
    /\ exitCode = Exit(0) =>
           \E s \in Signals :
               /\ Len(CallsBy(s)) = Len(ShutdownOrder)
               /\ slog[Len(slog)] = Call("exit:0", TRUE, s)

\* The consumer's disconnect and the ClickHouse close both failed, Prisma was
\* disconnected all the same and the process exited with 0.
C29_Witness ==
    /\ exitCode = Exit(0)
    /\ CallsBy(1) = <<Call("signal", TRUE, 1),
                      Call("consumer.disconnect", FALSE, 1),
                      Call("clickhouse.close", FALSE, 1),
                      Call("prisma.$disconnect", TRUE, 1),
                      Call("exit:0", TRUE, 1)>>

\* ------------------------------------------------------ claims: bulk write

\* The offsets of the current batch whose records are well-formed.
WellFormedOffsets == {i \in BatchOffsets : WellFormed(topic[i])}

\* C30: a batch with a well-formed entry takes the callback to one bulk write,
\* issued at no other point of the batch; what it writes is one LogEvent per
\* well-formed record of the batch and no other, in the records' order of
\* arrival, each with the deployment id and log text of its record, the time
\* at which the batch was taken (the clock has moved on by one since, and every
\* LogEvent of an earlier batch is older) and an event id no other LogEvent
\* has; and log_events changes only by such a write adding exactly these
\* LogEvents at once.
C30_OneBulkWriteInArrivalOrder ==
    /\ [](ipc = "insert" =>
            /\ WellFormedOffsets # {}
            /\ Len(logEntries) = Cardinality(WellFormedOffsets)
            /\ {logEntries[k].offset : k \in DOMAIN logEntries} = WellFormedOffsets
            /\ \A j, k \in DOMAIN logEntries : j < k =>
                   /\ logEntries[j].offset < logEntries[k].offset
                   /\ logEntries[j].event_id # logEntries[k].event_id
            /\ \A k \in DOMAIN logEntries :
                   LET obj == JsonParse(topic[logEntries[k].offset]).obj IN
                   /\ logEntries[k].deployment_id = obj.DEPLOYEMENT_ID
                   /\ logEntries[k].log = obj.log
                   /\ logEntries[k].timestamp = clock - 1
                   /\ \A j \in DOMAIN sink :
                          /\ sink[j].event_id # logEntries[k].event_id
                          /\ sink[j].timestamp < logEntries[k].timestamp)
    /\ [][(clock' # clock /\ \E i \in batch'.from..batch'.to : WellFormed(topic[i]))
             => ipc' = "insert"]_vars
    /\ [][(ipc' = "insert" /\ ipc # "insert") => (ipc = "idle" /\ clock' = clock + 1)]_vars
    /\ [][(ipc = "insert" /\ ipc' # "insert") => ipc' \in {"commit", "returned"}]_vars
    /\ [][sink' # sink => (ipc = "insert" /\ ipc' = "commit" /\ sink' = sink \o logEntries)]_vars

\* The batch [{D1, a}, {D2, c}] after a batch of one record: one write
\* added the LogEvents of a and c, in that order, to the one already there.
C30_Witness ==
    /\ ipc = "commit"
    /\ batch = [from |-> 2, to |-> 3]
    /\ topic = <<"{DEPLOYEMENT_ID:D1,log:c}", "{DEPLOYEMENT_ID:D1,log:a}",
                 "{DEPLOYEMENT_ID:D2,log:c}">>
    /\ Len(sink) = 3
    /\ sink[2].log = "a" /\ sink[2].deployment_id = "D1" /\ sink[2].timestamp = 1
    /\ sink[3].log = "c" /\ sink[3].deployment_id = "D2" /\ sink[3].timestamp = 1
    /\ sink[1].event_id # sink[2].event_id /\ sink[2].event_id # sink[3].event_id

\* --------------------------------------------------- claims: uploader's end

\* The workers of the pool.
Pool == {w \in Workers : wpc[w] # "unused"}

\* C31: a run of the pool over D files ends: every worker of the pool stops
\* and uploadFiles returns, whichever uploads fail; a worker stops only on a
\* claim of an index at or past D, so that when the W workers have stopped the
\* shared counter stands at D + W.
C31_UploaderTerminates ==
    /\ (epc = "uploading") ~> (epc = "done" /\ \A w \in Pool : wpc[w] = "stopped")
    /\ [](PoolStarted =>
            /\ Cardinality({w \in Pool : wpc[w] = "stopped"}) =
                   (IF nextIndex > nfiles THEN nextIndex - nfiles ELSE 0)
            /\ nextIndex <= nfiles + Cardinality(Pool)
            /\ epc = "done" => nextIndex = nfiles + Cardinality(Pool))
    /\ [][\A w \in Workers : (wpc[w] # "stopped" /\ wpc'[w] = "stopped") =>
              (nextIndex >= nfiles /\ nextIndex' = nextIndex + 1)]_vars

\* A run over three files in which every upload failed has ended; both workers
\* have stopped.
C31_Witness ==
    /\ epc = "done" /\ nfiles = 3 /\ failed = 3 /\ completed = 0
    /\ nextIndex = 5
    /\ \A w \in Pool : wpc[w] = "stopped"

\* ------------------------------------------------ claims: build then upload

\* The lines only uploadFiles() and what it calls emit.
UploaderLines ==
    {TNoDistDir, TDiscovering, TNoFiles, TGettingFiles(EReaddir)}
    \cup {TFound(n) : n \in 0..MaxFiles}
    \cup {TUploading(FileName(i)) : i \in 0..(MaxFiles - 1)}
    \cup {TUploaded(FileName(i)) : i \in 0..(MaxFiles - 1)}
    \cup {TErrorUploading(FileName(i), e) : i \in 0..(MaxFiles - 1), e \in {EAccess, EPutObject}}

\* uploadFiles() has been called.
UploaderInvoked == epc \in {"accessDist", "discover", "uploading", "done"}

\* C32: the uploader is at work, or has emitted a line, only after the build
\* was started and 'Build Complete' was emitted, in that order; and an executor
\* that found no output directory or whose build command failed has called no
\* uploadOne: no worker was started, no file was claimed and no line of the
\* uploader was emitted.
C32_UploadOnlyAfterBuild ==
    /\ UploaderInvoked =>
           /\ Places(emitted, TBuildComplete) # {}
           /\ Places(emitted, TFatal(EBuildFailed)) = {}
           /\ Places(emitted, TNoOutDir) = {}
    /\ \A l \in UploaderLines : Precedes(emitted, TBuildComplete, l)
    /\ Precedes(emitted, TStarting, TBuildComplete)
    /\ (Places(emitted, TNoOutDir) # {} \/ Places(emitted, TFatal(EBuildFailed)) # {}) =>
           /\ epc = "exit1"
           /\ nfiles = 0 /\ nextIndex = 0
           /\ \A w \in Workers : wpc[w] = "unused"
           /\ \A l \in UploaderLines : Places(emitted, l) = {}

\* The build command failed: the executor exited with 1 and nothing of the
\* uploader has run.
C32_Witness ==
    /\ epc = "exit1"
    /\ emitted = <<TExecuting, TStarting, TFatal(EBuildFailed)>>
    /\ \A w \in Workers : wpc[w] = "unused"

\* ---------------------------------------------------- claims: artifact store

\* The object the store holds for file f of project p, if any.
ObjectsOf(p, f) == {o \in store : ProjectOf(o.deployment) = p /\ o.file = f}

\* C38: the key of an object is made of the fixed prefix, the project of the
\* build that wrote it and the file's relative path, and of nothing else; the
\* store holds one object at most for a file of a project, whichever builds of
\* the project have put the file; a put that goes through makes the object
\* under its key the file of the build that put it, whatever build's file was
\* there, and leaves the other objects alone.
C38_KeyPerProjectAndPath ==
    /\ [](/\ \A o \in store :
                o.key = "__outputs/" \o ProjectOf(o.deployment) \o "/" \o o.file
          /\ \A d \in Builds, f \in StoreFiles :
                /\ Cardinality(ObjectsOf(ProjectOf(d), f)) <= 1
                /\ sent[d][f] = "put" => Cardinality(ObjectsOf(ProjectOf(d), f)) = 1)
    /\ [][\A d \in Builds, f \in StoreFiles :
              (sent[d][f] = "none" /\ sent'[d][f] = "put") =>
                  /\ ObjectsOf(ProjectOf(d), f)' =
                         {[key |-> Key(BuildEnv(d), f), deployment |-> d, file |-> f]}
                  /\ \A o \in store : o.key # Key(BuildEnv(d), f) => o \in store']_vars

\* The builds of deployments D1 and D2 of project P1 have both put both files;
\* the store holds index.html of D1 next to main.js of D2.
C38_Witness ==
    /\ \A f \in StoreFiles : sent["D1"][f] = "put" /\ sent["D2"][f] = "put"
    /\ [key |-> "__outputs/P1/index.html", deployment |-> "D1", file |-> "index.html"] \in store
    /\ [key |-> "__outputs/P1/main.js", deployment |-> "D2", file |-> "main.js"] \in store

====
